---- MODULE Spec2Model ----
(***************************************************************************)
(* fdk-mqa-scoring-service: the scoring pipeline (assessment graph, score  *)
(* catalog, scorer) and the worker loop (bounded retries, manual offset    *)
(* storage, GET prior / reconcile / POST against the scoring API).         *)
(***************************************************************************)
EXTENDS Integers, Sequences, FiniteSets, TLC

(***************************************************************************)
(* State.                                                                  *)
(***************************************************************************)
VARIABLES
    tgraph,     \* harness: the graph handed to the function under test
    tinput,     \* harness: the input of the function under test, or None
    tscore,     \* harness: the result of the function under test, or None
    tjson,      \* scorer harness: the scores JSON of the result, or None
    api,        \* scoring API: fdk-id -> None or Some(stored Turtle)
    stored,     \* partition -> number of leading messages whose offset is stored
    delivered,  \* partition -> number of messages the consumer has received
    pc,         \* worker -> where it is in run_async_processor
    message,    \* worker -> the message being handled
    attempts,   \* worker -> receive_message's attempts
    result,     \* worker -> receive_message's result
    graph,      \* worker -> assessment_graph
    update,     \* worker -> the UpdateRequest about to be POSTed, or None
    processed,  \* PROCESSED_MESSAGES: label -> count
    observed,   \* PROCESSING_TIME: number of observations
    sleeps,     \* worker -> sleeps taken while handling the current message
    trace,      \* worker -> the steps of the current attempt, in order
    prior,      \* worker -> the response to the current attempt's GET, or None
    failed,     \* partition -> offsets of the messages whose handling failed
    posted,     \* partition -> the events whose POST was answered 202
    accepted,   \* scoring API: fdk-id -> the last request answered 202, or None
    env         \* the deployment: the workers spawned, the messages produced,
                \* the order in which the store's index yields named nodes

svars == <<tgraph, tinput, tscore, tjson>>
wvars == <<api, stored, delivered, pc, message, attempts, result, graph,
           update, processed, observed, sleeps, trace, prior, failed, posted,
           accepted, env>>
vars == <<svars, wvars>>

(***************************************************************************)
(* RDF terms.  Every term is a tuple whose first component is its kind, so *)
(* that terms of different kinds are comparable.  A quad of the default    *)
(* graph is <<subject, predicate, object>>.                                *)
(***************************************************************************)
IRI(x) == <<"iri", x>>
BNode(x) == <<"bnode", x>>
Lit(dt, v) == <<"lit", dt, v>>

IsLiteral(t) == t[1] = "lit"
IsNamedNode(t) == t[1] = "iri"

\* vocab.rs
TYPE == "rdf:type"
DATASET_ASSESSMENT_CLASS == IRI("dcatno-mqa:DatasetAssessment")
DISTRIBUTION_ASSESSMENT_CLASS == IRI("dcatno-mqa:DistributionAssessment")
QUALITY_MEASUREMENT_CLASS == IRI("dqv:QualityMeasurement")
ASSESSMENT_OF == "dcatno-mqa:assessmentOf"
CONTAINS_QUALITY_MEASUREMENT == "dcatno-mqa:containsQualityMeasurement"
IS_MEASUREMENT_OF == "dqv:isMeasurementOf"
COMPUTED_ON == "dqv:computedOn"
VALUE == "dqv:value"
SCORE == "dcatno-mqa:score"
SCORING == "scoring"
MODIFIED == "dcterms:modified"
ACCESS_URL_STATUS_CODE == "accessUrlStatusCode"
DOWNLOAD_URL_STATUS_CODE == "downloadUrlStatusCode"

\* Option<T>: None is the empty sequence, Some(v) the one-element sequence.
None == <<>>
Some(v) == <<v>>
IsSome(o) == Len(o) = 1
unwrap_or_default(o) == IF IsSome(o) THEN o[1] ELSE 0

\* A maximum that is absent as soon as one side is absent.
OptionMaxOfPresent(a, b) ==
    IF ~IsSome(a) \/ ~IsSome(b) THEN None
    ELSE IF a[1] >= b[1] THEN a ELSE b

\* Option<u64>::max: None orders before every Some.
OptionMax(a, b) ==
    IF ~IsSome(a) THEN b
    ELSE IF ~IsSome(b) THEN a
    ELSE IF a[1] >= b[1] THEN a ELSE b

\* Iterator::collect: the list (or map) of the values, each computed once.
collect(s) == <<>> \o s
collect_map(f) == f @@ <<>>

RECURSIVE SeqSum(_)
SeqSum(s) == IF s = <<>> THEN 0 ELSE s[1] + SeqSum(Tail(s))

\* The functions that map every key of cand to a member of cand[key].
RECURSIVE Choices(_)
Choices(cand) ==
    IF DOMAIN cand = {} THEN {[k \in {} |-> {}]}
    ELSE LET k == CHOOSE x \in DOMAIN cand : TRUE
         IN {collect_map([x \in DOMAIN cand |-> IF x = k THEN v ELSE f[x]]) :
                v \in cand[k],
                f \in Choices(collect_map([x \in DOMAIN cand \ {k} |-> cand[x]]))}

\* All orders in which an iterator may yield the elements of a set.
RECURSIVE Orders(_)
Orders(S) ==
    IF S = {} THEN {<<>>}
    ELSE UNION {{<<x>> \o t : t \in Orders(S \ {x})} : x \in S}

(***************************************************************************)
(* Score catalog (score_graph.rs), on the seed catalog of the unit tests.  *)
(***************************************************************************)
\* The (metric, trueScore) rows the metrics() query returns for a
\* dimension, ORDER BY ?metric.
metrics(dimension) ==
    IF dimension = "accessibility"
    THEN << [id |-> ACCESS_URL_STATUS_CODE, score |-> 50],
            [id |-> "downloadUrlAvailability", score |-> 20] >>
    ELSE IF dimension = "interoperability"
    THEN << [id |-> "formatAvailability", score |-> 20] >>
    ELSE <<>>

\* Subjects typed dqv:Dimension, sorted.
dimensions == << "accessibility", "interoperability" >>

\* A catalog whose total is that of its first dimension alone.
scores_total_of_first ==
    LET dims == collect([i \in 1..Len(dimensions) |->
                    [id |-> dimensions[i],
                     metrics |-> metrics(dimensions[i]),
                     total_score |->
                        SeqSum(collect([j \in 1..Len(metrics(dimensions[i])) |->
                                    metrics(dimensions[i])[j].score]))]])
    IN [dimensions |-> dims, total_score |-> dims[1].total_score]

\* ScoreGraph::scores
scores ==
    LET dims == collect([i \in 1..Len(dimensions) |->
                    [id |-> dimensions[i],
                     metrics |-> metrics(dimensions[i]),
                     total_score |->
                        SeqSum(collect([j \in 1..Len(metrics(dimensions[i])) |->
                                    metrics(dimensions[i])[j].score]))]])
    IN [dimensions |-> dims,
        total_score |->
            SeqSum(collect([i \in 1..Len(dims) |-> dims[i].total_score]))]

\* The metrics of the catalog, as the IRIs measurements name them by.
CatalogMetricIRIs ==
    UNION {{IRI(scores.dimensions[i].metrics[j].id) :
                j \in 1..Len(scores.dimensions[i].metrics)}
           : i \in 1..Len(scores.dimensions)}

\* ScoreMetric::score: Ok(points) or Err.
Ok(v) == <<"ok", v>>
Err == <<"err">>
IsOk(r) == r[1] = "ok"

\* A scoring rule whose status-code range includes 300.
metric_score_to_300(metric, value) ==
    IF metric.id \in {ACCESS_URL_STATUS_CODE, DOWNLOAD_URL_STATUS_CODE}
    THEN IF value[2] = "integer"
         THEN Ok(IF 200 <= value[3] /\ value[3] <= 300 THEN metric.score ELSE 0)
         ELSE Err
    ELSE IF value[2] = "boolean"
         THEN Ok(IF value[3] THEN metric.score ELSE 0)
         ELSE Err

metric_score(metric, value) ==
    IF metric.id \in {ACCESS_URL_STATUS_CODE, DOWNLOAD_URL_STATUS_CODE}
    THEN IF value[2] = "integer"
         THEN Ok(IF 200 <= value[3] /\ value[3] < 300 THEN metric.score ELSE 0)
         ELSE Err
    ELSE IF value[2] = "boolean"
         THEN Ok(IF value[3] THEN metric.score ELSE 0)
         ELSE Err

(***************************************************************************)
(* AssessmentGraph (assessment_graph.rs): a set of quads.                  *)
(***************************************************************************)
\* AssessmentGraph::new: an empty in-memory store.
new == {}

\* AssessmentGraph::load: the parsed quads are added to the store; a
\* document that does not parse adds nothing and is an error.
Turtle(quads) == <<"turtle", quads>>
BadTurtle == <<"not turtle", {}>>
load(g, doc) == IF doc[1] = "turtle" THEN Ok(g \cup doc[2]) ELSE Err

Subjects(g, p, o) == {q[1] : q \in {t \in g : t[2] = p /\ t[3] = o}}
Objects(g, s, p) == {q[3] : q \in {t \in g : t[1] = s /\ t[2] = p}}

\* AssessmentGraph::assessment_resource: the first assessmentOf object.
assessment_resource(g, assessment) ==
    LET os == Objects(g, assessment, ASSESSMENT_OF)
    IN IF os = {} \/ \E o \in os : ~IsNamedNode(o) THEN Err
       ELSE Ok(CHOOSE o \in os : TRUE)

\* AssessmentGraph::dataset: the first subject typed DatasetAssessment.
dataset(g) ==
    LET as == Subjects(g, TYPE, DATASET_ASSESSMENT_CLASS)
    IN IF as = {} \/ \E a \in as : ~IsNamedNode(a) THEN Err
       ELSE LET a == CHOOSE x \in as : TRUE
                r == assessment_resource(g, a)
            IN IF IsOk(r) THEN Ok([assessment |-> a, resource |-> r[2]])
               ELSE Err

\* The subjects of a set in the order the store's index yields them: the
\* index is ordered by the encoded terms, one order for every graph of the
\* deployment, and not one the code chooses.
RECURSIVE index_order(_, _)
index_order(as, index) ==
    IF index = <<>> THEN <<>>
    ELSE (IF Head(index) \in as THEN <<Head(index)>> ELSE <<>>)
         \o index_order(as, Tail(index))

\* AssessmentGraph::distributions: every subject typed
\* DistributionAssessment with its resource, in the order the store
\* iterates them; the result is the set of lists the call may return.
distributions(g) ==
    LET as == Subjects(g, TYPE, DISTRIBUTION_ASSESSMENT_CLASS)
    IN IF \E a \in as : ~IsNamedNode(a) \/ ~IsOk(assessment_resource(g, a))
       THEN {Err}
       ELSE {Ok(collect([i \in 1..Len(o) |->
                    [assessment |-> o[i],
                     resource |-> assessment_resource(g, o[i])[2]]]))
                : o \in {index_order(as, env.index)}}

\* The solutions (?node, ?metric, ?value) of the query of
\* quality_measurements.
measurement_solutions(g) ==
    UNION {{<<c[1], mv[1], mv[2]>> :
                mv \in Objects(g, c[3], IS_MEASUREMENT_OF)
                       \X Objects(g, c[3], VALUE)}
           : c \in {t \in g : t[2] = CONTAINS_QUALITY_MEASUREMENT}}

\* AssessmentGraph::quality_measurements: the solutions collected into a
\* map (node, metric) -> value; of two solutions with the same key the one
\* iterated last stays.  The result is the set of maps the call may return,
\* one per choice of the values of the keys in read (the keys the caller
\* looks up); the value kept for another key is never read.
quality_measurements(g, read) ==
    LET sols == measurement_solutions(g)
        keys == {<<s[1], s[2]>> : s \in sols}
        values(k) == {s[3] : s \in {x \in sols : <<x[1], x[2]>> = k}}
    IN IF \E s \in sols :
            ~IsNamedNode(s[1]) \/ ~IsNamedNode(s[2]) \/ ~IsLiteral(s[3])
       THEN {Err}
       ELSE LET open == {k \in keys : k[2] \in read
                                       /\ Cardinality(values(k)) > 1}
            IN {Ok(collect_map([k \in keys |->
                        IF k \in open THEN c[k]
                        ELSE CHOOSE v \in values(k) : TRUE]))
                : c \in Choices(collect_map([k \in open |-> values(k)]))}

\* A rendering with "%Y-%m-%d %H:%M:%S %z", without the fraction.
format_timestamp_seconds(timestamp) == << timestamp \div 1000, <<>> >>

\* The "%Y-%m-%d %H:%M:%S%.f %z" rendering of an epoch-millisecond value in
\* UTC: the whole seconds (standing for the date and time of day) and the
\* fraction, which %.f leaves out when it is zero and otherwise prints with
\* three digits for a whole number of milliseconds.
format_timestamp(timestamp) ==
    LET secs == timestamp \div 1000
        ms == timestamp % 1000
    IN << secs,
          IF ms = 0 THEN <<>>
          ELSE << ms \div 100, (ms \div 10) % 10, ms % 10 >> >>

\* DateTime::parse_from_str with the same format, then timestamp_millis.
parse_timestamp(text) ==
    text[1] * 1000
    + (IF text[2] = <<>> THEN 0
       ELSE text[2][1] * 100 + text[2][2] * 10 + text[2][3])

\* AssessmentGraph::insert_modified_timestmap
insert_modified_timestmap(g, timestamp) ==
    IF ~IsOk(dataset(g)) THEN Err
    ELSE Ok(g \cup {<< dataset(g)[2].assessment, MODIFIED,
                       Lit("dateTime", format_timestamp(timestamp)) >>})

\* AssessmentGraph::get_modified_timestmap: the first modified quad of the
\* dataset assessment, in the order the store iterates them; the result is
\* the set of values the call may return.
get_modified_timestmap(g) ==
    IF ~IsOk(dataset(g)) THEN {Err}
    ELSE LET os == Objects(g, dataset(g)[2].assessment, MODIFIED)
         IN IF os = {} THEN {Err}
            ELSE {IF IsLiteral(o) /\ o[2] = "dateTime"
                  THEN Ok(parse_timestamp(o[3])) ELSE Err : o \in os}

\* The measurements get_measurement's query finds for (node, metric).
measurements_of(g, node, metric) ==
    {m \in Objects(g, node, CONTAINS_QUALITY_MEASUREMENT) :
        <<m, IS_MEASUREMENT_OF, metric>> \in g}

\* AssessmentGraph::get_measurement: the first solution of the query.  The
\* store iterates the solutions in an order of its own; an iteration names
\* one of two orders, in which different solutions come first.  Only a graph
\* that holds two measurements of one (node, metric) pair tells them apart.
measured_pairs(g) ==
    UNION {{<<c[1], metric, c[3]>> :
                metric \in Objects(g, c[3], IS_MEASUREMENT_OF)}
           : c \in {t \in g : t[2] = CONTAINS_QUALITY_MEASUREMENT}}

Iterations(g) ==
    IF Cardinality({<<p[1], p[2]>> : p \in measured_pairs(g)})
       < Cardinality(measured_pairs(g))
    THEN {"forward", "backward"}
    ELSE {"forward"}

get_measurement(g, node, metric, iteration) ==
    LET ms == measurements_of(g, node, metric)
    IN IF ms = {} THEN None
       ELSE LET m1 == CHOOSE m \in ms : TRUE
            IN IF iteration = "forward" \/ ms = {m1} THEN Some(m1)
               ELSE Some(CHOOSE m \in ms \ {m1} : TRUE)

\* AssessmentGraph::insert_measurement; BlankNode::default() is a node no
\* other call creates: it is named by the call (tag) and the pair.
new_blank_node(tag, assessment, metric) == BNode(<<"gen", tag, assessment, metric>>)

\* An insert_measurement that leaves out what the measurement is computed on.
insert_measurement_without_resource(g, assessment, computed_on, metric, tag) ==
    LET measurement == new_blank_node(tag, assessment, metric)
    IN g \cup {<<measurement, TYPE, QUALITY_MEASUREMENT_CLASS>>,
               <<measurement, IS_MEASUREMENT_OF, metric>>,
               <<assessment, CONTAINS_QUALITY_MEASUREMENT, measurement>>}

insert_measurement(g, assessment, computed_on, metric, tag) ==
    LET measurement == new_blank_node(tag, assessment, metric)
    IN g \cup {<<measurement, TYPE, QUALITY_MEASUREMENT_CLASS>>,
               <<measurement, IS_MEASUREMENT_OF, metric>>,
               <<measurement, COMPUTED_ON, computed_on>>,
               <<assessment, CONTAINS_QUALITY_MEASUREMENT, measurement>>}

\* An insert_measurement_property that creates a measurement every time.
insert_measurement_property_always_new(g, assessment, computed_on, metric, property, value, iteration, tag) ==
    insert_measurement(g, assessment, computed_on, metric, tag)
        \cup {<<new_blank_node(tag, assessment, metric), property,
                Lit("integer", value)>>}

\* AssessmentGraph::insert_measurement_property
insert_measurement_property(g, assessment, computed_on, metric, property, value, iteration, tag) ==
    LET found == get_measurement(g, assessment, metric, iteration)
        g1 == IF IsSome(found) THEN g
              ELSE insert_measurement(g, assessment, computed_on, metric, tag)
        measurement == IF IsSome(found) THEN found[1]
                       ELSE new_blank_node(tag, assessment, metric)
    IN g1 \cup {<<measurement, property, Lit("integer", value)>>}

\* The calls of insert_measurement_property that insert_scores makes for one
\* Score, in order: insert_node_score, then per dimension
\* insert_dimension_score and insert_measurement_score per metric that has
\* a score.
RECURSIVE Flatten(_)
Flatten(ss) == IF ss = <<>> THEN <<>> ELSE ss[1] \o Flatten(Tail(ss))

\* Insertions that write a metric's score as the measurement's dqv:value.
score_insertions_as_value(sc) ==
    << [assessment |-> sc.assessment, computed_on |-> sc.resource,
        metric |-> IRI(SCORING), property |-> VALUE, value |-> sc.score] >>
    \o Flatten(collect([i \in 1..Len(sc.dimensions) |->
        << [assessment |-> sc.assessment, computed_on |-> sc.resource,
            metric |-> IRI(sc.dimensions[i].id \o "Scoring"),
            property |-> VALUE, value |-> sc.dimensions[i].score] >>
        \o Flatten(collect([j \in 1..Len(sc.dimensions[i].metrics) |->
            IF IsSome(sc.dimensions[i].metrics[j].score)
            THEN << [assessment |-> sc.assessment, computed_on |-> sc.resource,
                     metric |-> IRI(sc.dimensions[i].metrics[j].id),
                     property |-> VALUE,
                     value |-> sc.dimensions[i].metrics[j].score[1]] >>
            ELSE <<>>]))]))

score_insertions(sc) ==
    << [assessment |-> sc.assessment, computed_on |-> sc.resource,
        metric |-> IRI(SCORING), property |-> VALUE, value |-> sc.score] >>
    \o Flatten(collect([i \in 1..Len(sc.dimensions) |->
        << [assessment |-> sc.assessment, computed_on |-> sc.resource,
            metric |-> IRI(sc.dimensions[i].id \o "Scoring"),
            property |-> VALUE, value |-> sc.dimensions[i].score] >>
        \o Flatten(collect([j \in 1..Len(sc.dimensions[i].metrics) |->
            IF IsSome(sc.dimensions[i].metrics[j].score)
            THEN << [assessment |-> sc.assessment, computed_on |-> sc.resource,
                     metric |-> IRI(sc.dimensions[i].metrics[j].id),
                     property |-> SCORE,
                     value |-> sc.dimensions[i].metrics[j].score[1]] >>
            ELSE <<>>]))]))

RECURSIVE apply_insertions(_, _, _, _)
apply_insertions(g, ins, iteration, tag) ==
    IF ins = <<>> THEN g
    ELSE apply_insertions(
            insert_measurement_property(g, ins[1].assessment,
                ins[1].computed_on, ins[1].metric, ins[1].property,
                ins[1].value, iteration, tag),
            Tail(ins), iteration, tag)

\* AssessmentGraph::insert_scores
insert_scores(g, score_list, iteration, tag) ==
    apply_insertions(g,
        Flatten(collect([i \in 1..Len(score_list) |->
                            score_insertions(score_list[i])])),
        iteration, tag)

\* AssessmentGraph::to_turtle: the dump of the default graph.
to_turtle(g) == Turtle(g)

(***************************************************************************)
(* Scorer (score.rs).                                                      *)
(***************************************************************************)
sum_dimensions(dims) ==
    SeqSum(collect([i \in 1..Len(dims) |-> dims[i].score]))

\* A sum that stops after the first metric.
sum_metrics_first(ms) ==
    IF ms = <<>> THEN 0 ELSE unwrap_or_default(ms[1].score)

sum_metrics(ms) ==
    SeqSum(collect([i \in 1..Len(ms) |-> unwrap_or_default(ms[i].score)]))

\* A metric score that falls back on the measurement of any other node when
\* the node has none.
node_metric_score_or_other(graph_measurements, node, metric) ==
    LET keys == {k \in DOMAIN graph_measurements : k[2] = IRI(metric.id)}
    IN IF keys = {} THEN Ok(None)
       ELSE LET k == IF <<node, IRI(metric.id)>> \in keys
                     THEN <<node, IRI(metric.id)>>
                     ELSE CHOOSE x \in keys : TRUE
                r == metric_score(metric, graph_measurements[k])
            IN IF IsOk(r) THEN Ok(Some(r[2])) ELSE Err

\* The score of one metric of a node: None without a measurement.
node_metric_score(graph_measurements, node, metric) ==
    IF <<node, IRI(metric.id)>> \in DOMAIN graph_measurements
    THEN LET r == metric_score(metric,
                               graph_measurements[<<node, IRI(metric.id)>>])
         IN IF IsOk(r) THEN Ok(Some(r[2])) ELSE Err
    ELSE Ok(None)

node_dimension_scores(score_definitions, graph_measurements, node) ==
    LET ds == score_definitions.dimensions
    IN IF \E i \in 1..Len(ds) : \E j \in 1..Len(ds[i].metrics) :
            ~IsOk(node_metric_score(graph_measurements, node,
                                    ds[i].metrics[j]))
       THEN Err
       ELSE Ok(collect([i \in 1..Len(ds) |->
                LET ms == collect([j \in 1..Len(ds[i].metrics) |->
                            [id |-> ds[i].metrics[j].id,
                             score |-> node_metric_score(graph_measurements,
                                          node, ds[i].metrics[j])[2]]])
                IN [id |-> ds[i].id, metrics |-> ms,
                    score |-> sum_metrics(ms)]]))

Min(a, b) == IF a <= b THEN a ELSE b

\* A merge that keeps the distribution's scores as they are.
merge_keeps_distribution(dims, other) == dims

\* zip stops at the shorter of the two lists.
merge_dimension_scores(dims, other) ==
    collect([i \in 1..Min(Len(dims), Len(other)) |->
        LET ms == collect(
                    [j \in 1..Min(Len(dims[i].metrics), Len(other[i].metrics)) |->
                        [id |-> dims[i].metrics[j].id,
                         score |-> OptionMax(dims[i].metrics[j].score,
                                             other[i].metrics[j].score)]])
        IN [id |-> dims[i].id, metrics |-> ms, score |-> sum_metrics(ms)]])

\* A best_score that returns the lowest scoring distribution.
best_score_lowest(ss) ==
    IF ss = <<>> THEN None
    ELSE Some(ss[CHOOSE k \in 1..Len(ss) :
                    \A j \in 1..Len(ss) : ss[k].score <= ss[j].score])

\* A best_score that returns the first distribution instead of the best.
best_score_first(ss) == IF ss = <<>> THEN None ELSE Some(ss[1])

\* Iterator::max_by_key: the last element with the maximum key.
best_score(ss) ==
    IF ss = <<>> THEN None
    ELSE LET i == CHOOSE k \in 1..Len(ss) :
                    /\ \A j \in 1..Len(ss) : ss[j].score <= ss[k].score
                    /\ \A j \in (k+1)..Len(ss) : ss[j].score < ss[k].score
         IN Some(ss[i])

\* calculate_score, given the map quality_measurements returned and the
\* list distributions returned.
calculate_score(g, score_definitions, qm, dist) ==
    IF ~IsOk(qm) THEN Err
    ELSE IF ~IsOk(dataset(g)) THEN Err
    ELSE LET graph_measurements == qm[2]
             ds == dataset(g)[2]
             dataset_dimensions ==
                node_dimension_scores(score_definitions, graph_measurements,
                                      ds.assessment)
         IN IF ~IsOk(dataset_dimensions) THEN Err
            ELSE IF ~IsOk(dist) THEN Err
            ELSE IF \E i \in 1..Len(dist[2]) :
                    ~IsOk(node_dimension_scores(score_definitions,
                            graph_measurements, dist[2][i].assessment))
            THEN Err
            ELSE LET distribution_scores ==
                        collect([i \in 1..Len(dist[2]) |->
                            LET d == node_dimension_scores(score_definitions,
                                        graph_measurements,
                                        dist[2][i].assessment)[2]
                            IN [assessment |-> dist[2][i].assessment,
                                resource |-> dist[2][i].resource,
                                dimensions |-> d,
                                score |-> sum_dimensions(d)]])
                     dataset_merged_distribution_scores ==
                        collect([i \in 1..Len(distribution_scores) |->
                            LET d == merge_dimension_scores(
                                        distribution_scores[i].dimensions,
                                        dataset_dimensions[2])
                            IN [assessment |-> distribution_scores[i].assessment,
                                resource |-> distribution_scores[i].resource,
                                dimensions |-> d,
                                score |-> sum_dimensions(d)]])
                     best == best_score(dataset_merged_distribution_scores)
                 IN Ok(<< [assessment |-> ds.assessment,
                           resource |-> ds.resource,
                           dimensions |-> IF IsSome(best)
                                          THEN best[1].dimensions
                                          ELSE dataset_dimensions[2],
                           score |-> IF IsSome(best)
                                     THEN best[1].score
                                     ELSE sum_dimensions(dataset_dimensions[2])],
                         distribution_scores >>)

(***************************************************************************)
(* JSON summary (json_conversion.rs).  The structures Scores, Score,       *)
(* DimensionScore and MetricScore are declared there; convert_scores, which *)
(* the event handler calls, converts a Score tree and the catalog.          *)
(***************************************************************************)
\* A MetricScore whose is_scored is true only for a positive score.
MetricScorePositive(metric, score, max_score) ==
    [metric |-> metric,
     score |-> IF IsSome(score) THEN score[1] ELSE 0,
     is_scored |-> IsSome(score) /\ score[1] > 0,
     max_score |-> max_score]

\* MetricScore { metric, score: score.unwrap_or(0),
\*               is_scored: score.is_some(), max_score }
MetricScore(metric, score, max_score) ==
    [metric |-> metric,
     score |-> IF IsSome(score) THEN score[1] ELSE 0,
     is_scored |-> IsSome(score),
     max_score |-> max_score]

\* One resource's Score tree as JSON: the id is the resource IRI, the scores
\* are the tree's, the max_score of every level is the catalog's.
convert_score(score_definitions, sc) ==
    [name |-> sc.resource,
     dimensions |->
        collect([k \in 1..Len(sc.dimensions) |->
            [name |-> sc.dimensions[k].id,
             metrics |->
                collect([j \in 1..Len(sc.dimensions[k].metrics) |->
                    MetricScore(sc.dimensions[k].metrics[j].id,
                                sc.dimensions[k].metrics[j].score,
                                score_definitions.dimensions[k].metrics[j].score)]),
             score |-> sc.dimensions[k].score,
             max_score |-> score_definitions.dimensions[k].total_score]]),
     score |-> sc.score,
     max_score |-> score_definitions.total_score]

convert_scores(score_definitions, dataset_score, distribution_scores) ==
    [dataset |-> convert_score(score_definitions, dataset_score),
     distributions |->
        collect([i \in 1..Len(distribution_scores) |->
            convert_score(score_definitions, distribution_scores[i])])]

(***************************************************************************)
(* Messages of the input topic.                                            *)
(***************************************************************************)
\* The most messages the consumers receive, over all partitions.
MaxMessages == 3
\* Event timestamps are 1000 + 500 * k for k in 0..MaxTimestamp: whole
\* seconds and values with a millisecond part.
MaxTimestamp == 1

\* run_async_processor is spawned once per worker; worker w is assigned
\* partition w of the topic.
Workers == {1, 2}
FdkIds == {"0b2cfd4e-8a4c-4b1e-9d1c-000000000001"}
Timestamps == {1000 + 500 * k : k \in 0..MaxTimestamp}

DatasetAssessment == IRI("https://dataset.assessment.foo")
DistributionAssessments ==
    {IRI("https://distribution.assessment.a"),
     IRI("https://distribution.assessment.b")}
ResourceOf(a) ==
    IF a = DatasetAssessment THEN IRI("https://dataset.foo")
    ELSE IF a = IRI("https://distribution.assessment.a")
    THEN IRI("https://distribution.a")
    ELSE IRI("https://distribution.b")

AssessmentQuads(a, class) ==
    {<<a, TYPE, class>>, <<a, ASSESSMENT_OF, ResourceOf(a)>>}

UpstreamNode(a, metric) == BNode(<<"up", a[2], metric>>)

MeasurementQuads(a, metric, value) ==
    {<<a, CONTAINS_QUALITY_MEASUREMENT, UpstreamNode(a, metric)>>,
     <<UpstreamNode(a, metric), TYPE, QUALITY_MEASUREMENT_CLASS>>,
     <<UpstreamNode(a, metric), IS_MEASUREMENT_OF, IRI(metric)>>,
     <<UpstreamNode(a, metric), VALUE, value>>}

\* Event graphs of the upstream checks: a dataset measurement, a
\* distribution measurement, a graph without dataset assessment, and a
\* graph with a value of the wrong type.
DatasetGraph ==
    Turtle(AssessmentQuads(DatasetAssessment, DATASET_ASSESSMENT_CLASS)
           \cup MeasurementQuads(DatasetAssessment, "downloadUrlAvailability",
                                 Lit("boolean", TRUE)))
DistributionGraph ==
    Turtle(AssessmentQuads(DatasetAssessment, DATASET_ASSESSMENT_CLASS)
           \cup AssessmentQuads(IRI("https://distribution.assessment.a"),
                                DISTRIBUTION_ASSESSMENT_CLASS)
           \cup MeasurementQuads(IRI("https://distribution.assessment.a"),
                                 ACCESS_URL_STATUS_CODE, Lit("integer", 200)))
NoDatasetGraph ==
    Turtle(AssessmentQuads(IRI("https://distribution.assessment.b"),
                           DISTRIBUTION_ASSESSMENT_CLASS)
           \cup MeasurementQuads(IRI("https://distribution.assessment.b"),
                                 "formatAvailability", Lit("boolean", TRUE)))
BadValueGraph ==
    Turtle(AssessmentQuads(DatasetAssessment, DATASET_ASSESSMENT_CLASS)
           \cup MeasurementQuads(DatasetAssessment, "formatAvailability",
                                 Lit("integer", 1)))

\* The document an upstream check sends with an event: it serialises its
\* graph anew for every event, so the labels of the blank nodes are those of
\* the run that produced the event; two events of one run are byte-identical.
RunTerm(t, run) == IF t[1] = "bnode" THEN BNode(Append(t[2], run)) ELSE t
EventGraph(doc, run) ==
    Turtle({<<RunTerm(q[1], run), q[2], RunTerm(q[3], run)>> : q \in doc[2]})

MqaMessage(type, fdk_id, g, ts) ==
    [payload |-> "avro", namespace |-> "no.fdk.mqa", name |-> "MQAEvent",
     event_type |-> type, fdk_id |-> fdk_id, graph |-> g, timestamp |-> ts]

AnFdkId == CHOOSE f \in FdkIds : TRUE

GoodMessages ==
    {MqaMessage("PROPERTIES_CHECKED", f, EventGraph(DatasetGraph, ts), ts)
        : f \in FdkIds, ts \in Timestamps}
    \cup {MqaMessage("URLS_CHECKED", f, EventGraph(DistributionGraph, ts), ts)
        : f \in FdkIds, ts \in Timestamps}

BadMessages ==
    { [MqaMessage("", "", BadTurtle, 0) EXCEPT !.payload = "garbage",
                                              !.namespace = "", !.name = ""],
      [MqaMessage("", "", BadTurtle, 0) EXCEPT !.namespace = "no.fdk.foo",
                                              !.name = "SomethingElse"],
      MqaMessage("UNKNOWN", AnFdkId, DatasetGraph, 1000),
      MqaMessage("PROPERTIES_CHECKED", "not-a-uuid", DatasetGraph, 1000),
      MqaMessage("DCAT_COMPLIANCE_CHECKED", AnFdkId, BadTurtle, 1000),
      MqaMessage("DCAT_COMPLIANCE_CHECKED", AnFdkId, NoDatasetGraph, 1000),
      MqaMessage("DCAT_COMPLIANCE_CHECKED", AnFdkId, BadValueGraph, 1000) }

Messages == GoodMessages \cup BadMessages
\* The messages produced to a topic, by the topic's name.
Topic(name) == IF name = "good" THEN GoodMessages
               ELSE IF name = "all" THEN Messages
               ELSE {}
NoMessage == MqaMessage("", "", BadTurtle, 0)

(***************************************************************************)
(* Event handler (kafka.rs).                                               *)
(***************************************************************************)
\* A decoder that rejects every name but that of the MQA event.
decode_message_known_only(m) ==
    IF m.payload # "avro" \/ m.name = "" \/ m.namespace = "" THEN Err
    ELSE IF m.namespace = "no.fdk.mqa" /\ m.name = "MQAEvent"
    THEN Ok("MqaEvent")
    ELSE Err

\* decode_message: an error, or the InputEvent variant.
decode_message(m) ==
    IF m.payload # "avro" \/ m.name = "" \/ m.namespace = "" THEN Err
    ELSE IF m.namespace = "no.fdk.mqa" /\ m.name = "MQAEvent"
    THEN Ok("MqaEvent")
    ELSE Ok("Unknown")

\* Uuid::parse_str
parse_str(text) == IF text \in FdkIds THEN Ok(text) ELSE Err

\* A handler that skips an event of an unknown type.
before_get_skips_unknown_type(m) ==
    LET d == decode_message(m)
    IN IF ~IsOk(d) THEN [to |-> "err", steps |-> <<"decode">>]
       ELSE IF d[2] = "Unknown" THEN [to |-> "ok", steps |-> <<"decode">>]
       ELSE IF m.event_type \notin {"PROPERTIES_CHECKED", "URLS_CHECKED",
                                    "DCAT_COMPLIANCE_CHECKED"}
       THEN [to |-> "ok", steps |-> <<"decode", "event_type">>]
       ELSE IF ~IsOk(parse_str(m.fdk_id))
       THEN [to |-> "err", steps |-> <<"decode", "event_type", "parse_fdk_id">>]
       ELSE [to |-> "get", steps |-> <<"decode", "event_type", "parse_fdk_id">>]

\* handle_message and handle_mqa_event up to the GET: "ok" (skipped),
\* "err", or "get" with the steps taken.
before_get(m) ==
    LET d == decode_message(m)
    IN IF ~IsOk(d) THEN [to |-> "err", steps |-> <<"decode">>]
       ELSE IF d[2] = "Unknown" THEN [to |-> "ok", steps |-> <<"decode">>]
       ELSE IF m.event_type \notin {"PROPERTIES_CHECKED", "URLS_CHECKED",
                                    "DCAT_COMPLIANCE_CHECKED"}
       THEN [to |-> "err", steps |-> <<"decode", "event_type">>]
       ELSE IF ~IsOk(parse_str(m.fdk_id))
       THEN [to |-> "err", steps |-> <<"decode", "event_type", "parse_fdk_id">>]
       ELSE [to |-> "get", steps |-> <<"decode", "event_type", "parse_fdk_id">>]

\* The responses get_graph may receive: 404 without a stored assessment,
\* 200 with the stored Turtle, or another status.
get_responses(stored_assessment) ==
    {[status |-> 500, body |-> BadTurtle]}
    \cup (IF IsSome(stored_assessment)
          THEN {[status |-> 200, body |-> stored_assessment[1]]}
          ELSE {[status |-> 404, body |-> BadTurtle]})

\* A comparison that also drops an event as old as the prior assessment.
outdated_or_equal(timestamp, event) == timestamp >= event.timestamp

\* if timestamp > event.timestamp: the event is outdated and skipped.
outdated(timestamp, event) == timestamp > event.timestamp

\* A handler that takes every status but 200 for a missing assessment.
after_get_any_status(g, event, response) ==
    IF response.status # 200
    THEN {[to |-> "score", graph |-> g, steps |-> <<"get">>]}
    ELSE IF response.status # 200
    THEN {[to |-> "err", graph |-> g, steps |-> <<"get">>]}
    ELSE IF ~IsOk(load(g, response.body))
    THEN {[to |-> "err", graph |-> g, steps |-> <<"get", "load_prior">>]}
    ELSE LET g1 == load(g, response.body)[2]
         IN {IF IsOk(current_timestamp)
                /\ outdated(current_timestamp[2], event)
             THEN [to |-> "ok", graph |-> g1,
                   steps |-> <<"get", "load_prior", "reconcile">>]
             ELSE [to |-> "score", graph |-> g1,
                   steps |-> <<"get", "load_prior", "reconcile">>]
             : current_timestamp \in get_modified_timestmap(g1)}

\* handle_mqa_event from the response to get_graph to the reconciliation by
\* timestamp: the outcomes, each with the graph it leaves.
after_get(g, event, response) ==
    IF response.status = 404
    THEN {[to |-> "score", graph |-> g, steps |-> <<"get">>]}
    ELSE IF response.status # 200
    THEN {[to |-> "err", graph |-> g, steps |-> <<"get">>]}
    ELSE IF ~IsOk(load(g, response.body))
    THEN {[to |-> "err", graph |-> g, steps |-> <<"get", "load_prior">>]}
    ELSE LET g1 == load(g, response.body)[2]
         IN {IF IsOk(current_timestamp)
                /\ outdated(current_timestamp[2], event)
             THEN [to |-> "ok", graph |-> g1,
                   steps |-> <<"get", "load_prior", "reconcile">>]
             ELSE [to |-> "score", graph |-> g1,
                   steps |-> <<"get", "load_prior", "reconcile">>]
             : current_timestamp \in get_modified_timestmap(g1)}

\* handle_mqa_event from loading the event graph to the UpdateRequest: the
\* outcomes, each with the graph it leaves.  The update holds the fields of
\* the UpdateRequest and, beside them, the locals dataset_score and
\* distribution_scores they were made from.
score_event(g, event, tag) ==
    IF ~IsOk(load(g, event.graph))
    THEN {[to |-> "err", graph |-> g, update |-> None,
           steps |-> <<"load_event">>]}
    ELSE LET g1 == load(g, event.graph)[2]
             m == insert_modified_timestmap(g1, event.timestamp)
         IN IF ~IsOk(m)
            THEN {[to |-> "err", graph |-> g1, update |-> None,
                   steps |-> <<"load_event", "set_modified">>]}
            ELSE UNION {
                LET sc == calculate_score(m[2], scores, qd[1], qd[2])
                IN IF ~IsOk(sc)
                   THEN {[to |-> "err", graph |-> m[2], update |-> None,
                          steps |-> <<"load_event", "set_modified", "score">>]}
                   ELSE {LET g2 == insert_scores(m[2], <<sc[2][1]>>, it, tag)
                             g3 == insert_scores(g2, sc[2][2], it, tag)
                         IN [to |-> "post", graph |-> g3,
                             update |-> Some([
                                 scores |-> convert_scores(scores, sc[2][1],
                                                           sc[2][2]),
                                 turtle_assessment |-> to_turtle(g3),
                                 dataset_score |-> sc[2][1],
                                 distribution_scores |-> sc[2][2]]),
                             steps |-> <<"load_event", "set_modified",
                                         "score", "insert_scores",
                                         "serialize">>]
                         : it \in Iterations(m[2])}
                : qd \in quality_measurements(m[2], CatalogMetricIRIs)
                         \X distributions(m[2])}

\* handle_message: the outcomes of one call up to the call of post_scores,
\* given the assessment the scoring API holds when the GET arrives.
handle_message(g, m, stored_assessment, tag) ==
    LET b == before_get(m)
    IN IF b.to # "get"
       THEN {[to |-> b.to, graph |-> g, update |-> None, prior |-> None,
              steps |-> b.steps]}
       ELSE UNION {UNION {
                IF o.to # "score"
                THEN {[to |-> o.to, graph |-> o.graph, update |-> None,
                       prior |-> Some(response), steps |-> b.steps \o o.steps]}
                ELSE {[to |-> e.to, graph |-> e.graph, update |-> e.update,
                       prior |-> Some(response),
                       steps |-> b.steps \o o.steps \o e.steps]
                      : e \in score_event(o.graph, m, tag)}
                : o \in after_get(g, m, response)}
            : response \in get_responses(stored_assessment)}

(***************************************************************************)
(* Worker loop (kafka.rs) and process (bin/fdk-mqa-scoring-service.rs).    *)
(***************************************************************************)
MaxAttempts == 5

WorkerInit(e) ==
    /\ env = e
    /\ api = [f \in FdkIds |-> None]
    /\ stored = [w \in Workers |-> 0]
    /\ delivered = [w \in Workers |-> 0]
    /\ pc = [w \in Workers |-> "recv"]
    /\ message = [w \in Workers |-> NoMessage]
    /\ attempts = [w \in Workers |-> 0]
    /\ result = [w \in Workers |-> "Err"]
    /\ graph = [w \in Workers |-> new]
    /\ update = [w \in Workers |-> None]
    /\ processed = [label \in {"success", "error"} |-> 0]
    /\ observed = 0
    /\ sleeps = [w \in Workers |-> 0]
    /\ trace = [w \in Workers |-> <<>>]
    /\ prior = [w \in Workers |-> None]
    /\ failed = [w \in Workers |-> {}]
    /\ posted = [w \in Workers |-> {}]
    /\ accepted = [f \in FdkIds |-> None]

\* A loop that fetches the next message while the current one is waiting
\* for its next attempt.
RecvWhileSleeping(w) ==
    /\ pc[w] \in {"recv", "sleep"}
    /\ SeqSum(collect([v \in 1..Cardinality(Workers) |-> delivered[v]]))
       < env.messages
    /\ \E m \in Topic(env.topic) : message' = [message EXCEPT ![w] = m]
    /\ delivered' = [delivered EXCEPT ![w] = @ + 1]
    /\ attempts' = [attempts EXCEPT ![w] = 0]
    /\ result' = [result EXCEPT ![w] = "Err"]
    /\ pc' = [pc EXCEPT ![w] = "handle"]
    /\ UNCHANGED <<api, stored, graph, update, processed, observed, sleeps,
                   trace, prior, failed, posted, accepted, env>>

\* consumer.recv() yields the next message of the worker's partition;
\* receive_message starts with no attempt made.
Recv(w) ==
    /\ pc[w] = "recv"
    /\ SeqSum(collect([v \in 1..Cardinality(Workers) |-> delivered[v]]))
       < env.messages
    /\ \E m \in Topic(env.topic) : message' = [message EXCEPT ![w] = m]
    /\ delivered' = [delivered EXCEPT ![w] = @ + 1]
    /\ attempts' = [attempts EXCEPT ![w] = 0]
    /\ result' = [result EXCEPT ![w] = "Err"]
    /\ pc' = [pc EXCEPT ![w] = "handle"]
    /\ UNCHANGED <<api, stored, graph, update, processed, observed, sleeps,
                   trace, prior, failed, posted, accepted, env>>

\* A failure of consumer.recv() that ends the one worker alone.
RecvErrorEndsWorker(w) ==
    /\ pc[w] = "recv"
    /\ pc' = [pc EXCEPT ![w] = "stopped"]
    /\ UNCHANGED <<api, stored, delivered, message, attempts, result, graph,
                   update, processed, observed, sleeps, trace, prior, failed,
                   posted, accepted, env>>

\* consumer.recv() fails: the worker returns the error and main exits the
\* process, which ends every worker.
RecvError(w) ==
    /\ pc[w] = "recv"
    /\ pc' = [v \in Workers |-> "stopped"]
    /\ UNCHANGED <<api, stored, delivered, message, attempts, result, graph,
                   update, processed, observed, sleeps, trace, prior, failed,
                   posted, accepted, env>>

\* The end of an attempt: Ok leaves the retry loop, an error goes to sleep.
AttemptEnds(w, to) ==
    /\ result' = [result EXCEPT ![w] = IF to = "ok" THEN "Ok" ELSE "Err"]
    /\ pc' = [pc EXCEPT ![w] = IF to = "ok" THEN "done" ELSE "sleep"]

\* One iteration of the retry loop: handle_message up to the call of
\* post_scores.  Between the response to the GET and the POST the handler
\* only computes on its own graph.
HandleMessage(w) ==
    /\ pc[w] = "handle"
    /\ attempts' = [attempts EXCEPT ![w] = @ + 1]
    /\ \E o \in handle_message(graph[w], message[w],
                               IF message[w].fdk_id \in FdkIds
                               THEN api[message[w].fdk_id] ELSE None,
                               <<w, delivered[w]>>) :
        /\ graph' = [graph EXCEPT ![w] = o.graph]
        /\ update' = [update EXCEPT ![w] = o.update]
        /\ prior' = [prior EXCEPT ![w] = o.prior]
        /\ trace' = [trace EXCEPT ![w] = o.steps]
        /\ IF o.to = "post"
           THEN /\ pc' = [pc EXCEPT ![w] = "post"]
                /\ UNCHANGED result
           ELSE AttemptEnds(w, o.to)
    /\ UNCHANGED <<api, stored, delivered, message, processed, observed,
                   sleeps, failed, posted, accepted, env>>

\* A post_scores that returns Ok whatever the status of the answer.
PostScoresAnyStatus(w) ==
    /\ pc[w] = "post"
    /\ \E status \in {202, 413, 500} :
        /\ IF status = 202
           THEN /\ api' = [api EXCEPT ![message[w].fdk_id] =
                                Some(update[w][1].turtle_assessment)]
                /\ posted' = [posted EXCEPT ![w] = @ \cup {message[w]}]
                /\ accepted' = [accepted EXCEPT ![message[w].fdk_id] =
                        Some([event |-> message[w],
                              scores |-> update[w][1].scores,
                              turtle_assessment |->
                                  update[w][1].turtle_assessment])]
           ELSE UNCHANGED <<api, posted, accepted>>
        /\ AttemptEnds(w, "ok")
    /\ trace' = [trace EXCEPT ![w] = Append(@, "post")]
    /\ UNCHANGED <<stored, delivered, message, attempts, graph, update,
                   processed, observed, sleeps, prior, failed, env>>

\* A post_scores that sends the request again when the answer is not 202.
PostScoresAgain(w) ==
    /\ pc[w] = "post"
    /\ \E status \in {202, 413, 500} :
        IF status = 202
        THEN /\ api' = [api EXCEPT ![message[w].fdk_id] =
                            Some(update[w][1].turtle_assessment)]
             /\ posted' = [posted EXCEPT ![w] = @ \cup {message[w]}]
             /\ accepted' = [accepted EXCEPT ![message[w].fdk_id] =
                    Some([event |-> message[w], scores |-> update[w][1].scores,
                          turtle_assessment |-> update[w][1].turtle_assessment])]
             /\ AttemptEnds(w, "ok")
        ELSE UNCHANGED <<api, posted, accepted, result, pc>>
    /\ trace' = [trace EXCEPT ![w] = Append(@, "post")]
    /\ UNCHANGED <<stored, delivered, message, attempts, graph, update,
                   processed, observed, sleeps, prior, failed, env>>

\* post_scores: 202 stores the assessment, any other status is an error.
PostScores(w) ==
    /\ pc[w] = "post"
    /\ \E status \in {202, 413, 500} :
        /\ IF status = 202
           THEN /\ api' = [api EXCEPT ![message[w].fdk_id] =
                                Some(update[w][1].turtle_assessment)]
                /\ posted' = [posted EXCEPT ![w] = @ \cup {message[w]}]
                /\ accepted' = [accepted EXCEPT ![message[w].fdk_id] =
                        Some([event |-> message[w],
                              scores |-> update[w][1].scores,
                              turtle_assessment |->
                                  update[w][1].turtle_assessment])]
           ELSE UNCHANGED <<api, posted, accepted>>
        /\ AttemptEnds(w, IF status = 202 THEN "ok" ELSE "err")
    /\ trace' = [trace EXCEPT ![w] = Append(@, "post")]
    /\ UNCHANGED <<stored, delivered, message, attempts, graph, update,
                   processed, observed, sleeps, prior, failed, env>>

\* A retry loop without a bound.
SleepAndRetry(w) ==
    /\ pc[w] = "sleep"
    /\ sleeps' = [sleeps EXCEPT ![w] = @ + 1]
    /\ pc' = [pc EXCEPT ![w] = "handle"]
    /\ UNCHANGED <<api, stored, delivered, message, attempts, result, graph,
                   update, processed, observed, trace, prior, failed, posted,
                   accepted, env>>

\* tokio::time::sleep after a failed attempt, then the next iteration of
\* for _ in 0..5, if any.
Sleep(w) ==
    /\ pc[w] = "sleep"
    /\ sleeps' = [sleeps EXCEPT ![w] = @ + 1]
    /\ pc' = [pc EXCEPT ![w] = IF attempts[w] < MaxAttempts THEN "handle"
                                ELSE "done"]
    /\ UNCHANGED <<api, stored, delivered, message, attempts, result, graph,
                   update, processed, observed, trace, prior, failed, posted,
                   accepted, env>>

\* An outcome handling that stores the offset whatever the result.
MatchResultStoresAlways(w) ==
    /\ processed' = [processed EXCEPT
            ![IF result[w] = "Ok" THEN "success" ELSE "error"] = @ + 1]
    /\ stored' = [stored EXCEPT ![w] = delivered[w]]
    /\ failed' = [failed EXCEPT ![w] =
            IF result[w] = "Ok" THEN @ ELSE @ \cup {delivered[w]}]

\* match result: Ok counts a success and stores the message's offset (a
\* failure to store is logged); Err counts an error.
MatchResult(w) ==
    IF result[w] = "Ok"
    THEN /\ processed' = [processed EXCEPT !["success"] = @ + 1]
         /\ \E store_offset \in {"Ok", "Err"} :
                stored' = [stored EXCEPT ![w] =
                    IF store_offset = "Ok" THEN delivered[w] ELSE @]
         /\ UNCHANGED failed
    ELSE /\ processed' = [processed EXCEPT !["error"] = @ + 1]
         /\ failed' = [failed EXCEPT ![w] = @ \cup {delivered[w]}]
         /\ UNCHANGED stored

\* A loop that hands the graph of the last message to the next one.
KeepAssessmentGraph(w) == UNCHANGED graph

\* let assessment_graph = AssessmentGraph::new() at the top of the loop.
NewAssessmentGraph(w) == graph' = [graph EXCEPT ![w] = new]

\* A receive_message that observes the duration of handled messages only.
FinishObservesSuccessOnly(w) ==
    /\ pc[w] = "done"
    /\ MatchResult(w)
    /\ observed' = IF result[w] = "Ok" THEN observed + 1 ELSE observed
    /\ NewAssessmentGraph(w)
    /\ message' = [message EXCEPT ![w] = NoMessage]
    /\ attempts' = [attempts EXCEPT ![w] = 0]
    /\ result' = [result EXCEPT ![w] = "Err"]
    /\ sleeps' = [sleeps EXCEPT ![w] = 0]
    /\ trace' = [trace EXCEPT ![w] = <<>>]
    /\ prior' = [prior EXCEPT ![w] = None]
    /\ update' = [update EXCEPT ![w] = None]
    /\ pc' = [pc EXCEPT ![w] = "recv"]
    /\ UNCHANGED <<api, delivered, posted, accepted, env>>

\* A receive_message whose final error ends the worker's loop.
FinishReturnsError(w) ==
    /\ pc[w] = "done"
    /\ MatchResult(w)
    /\ observed' = observed + 1
    /\ NewAssessmentGraph(w)
    /\ message' = [message EXCEPT ![w] = NoMessage]
    /\ attempts' = [attempts EXCEPT ![w] = 0]
    /\ result' = [result EXCEPT ![w] = "Err"]
    /\ sleeps' = [sleeps EXCEPT ![w] = 0]
    /\ trace' = [trace EXCEPT ![w] = <<>>]
    /\ prior' = [prior EXCEPT ![w] = None]
    /\ update' = [update EXCEPT ![w] = None]
    /\ pc' = [pc EXCEPT ![w] = IF result[w] = "Ok" THEN "recv" ELSE "stopped"]
    /\ UNCHANGED <<api, delivered, posted, accepted, env>>

\* The end of receive_message (the outcome is counted, the duration
\* observed) and the top of the next iteration of the loop, up to
\* consumer.recv(); what receive_message kept for the message is gone.
Finish(w) ==
    /\ pc[w] = "done"
    /\ MatchResult(w)
    /\ observed' = observed + 1
    /\ NewAssessmentGraph(w)
    /\ message' = [message EXCEPT ![w] = NoMessage]
    /\ attempts' = [attempts EXCEPT ![w] = 0]
    /\ result' = [result EXCEPT ![w] = "Err"]
    /\ sleeps' = [sleeps EXCEPT ![w] = 0]
    /\ trace' = [trace EXCEPT ![w] = <<>>]
    /\ prior' = [prior EXCEPT ![w] = None]
    /\ update' = [update EXCEPT ![w] = None]
    /\ pc' = [pc EXCEPT ![w] = "recv"]
    /\ UNCHANGED <<api, delivered, posted, accepted, env>>

HarnessIdle == tgraph = new /\ tinput = None /\ tscore = None /\ tjson = None

Next ==
    \/ \E w \in env.workers : Recv(w) /\ UNCHANGED svars
    \/ \E w \in env.workers : RecvError(w) /\ UNCHANGED svars
    \/ \E w \in env.workers : HandleMessage(w) /\ UNCHANGED svars
    \/ \E w \in env.workers : PostScores(w) /\ UNCHANGED svars
    \/ \E w \in env.workers : Sleep(w) /\ UNCHANGED svars
    \/ \E w \in env.workers : Finish(w) /\ UNCHANGED svars

\* One worker, fed every kind of message.
Init ==
    /\ \E o \in Orders(DistributionAssessments) :
        WorkerInit([workers |-> {1}, topic |-> "all",
                    messages |-> MaxMessages, index |-> o])
    /\ HarnessIdle
Spec == Init /\ [][Next]_vars

\* Two workers, fed two well-formed events of one dataset.
InitWorkers ==
    /\ \E o \in Orders(DistributionAssessments) :
        WorkerInit([workers |-> Workers, topic |-> "good",
                    messages |-> Cardinality(Workers), index |-> o])
    /\ HarnessIdle
SpecWorkers == InitWorkers /\ [][Next]_vars

(***************************************************************************)
(* Scorer harness: assessment graphs are built quad by quad, as load       *)
(* would from an event, and calculate_score is applied to them.            *)
(***************************************************************************)
\* The most value literals a graph of the harness holds.
MaxValues == 4

MetricIds ==
    UNION {{scores.dimensions[i].metrics[j].id :
                j \in 1..Len(scores.dimensions[i].metrics)}
           : i \in 1..Len(scores.dimensions)}

\* The values upstream checks write for a metric, and one of the wrong type.
ValuesOf(metric) ==
    IF metric = ACCESS_URL_STATUS_CODE
    THEN {Lit("integer", 200), Lit("integer", 404), Lit("boolean", TRUE)}
    ELSE {Lit("boolean", TRUE), Lit("boolean", FALSE), Lit("integer", 1)}

ScoreInit ==
    /\ tgraph \in {new, AssessmentQuads(DatasetAssessment, DATASET_ASSESSMENT_CLASS)}
    /\ tinput = None
    /\ tscore = None
    /\ tjson = None
    /\ \E o \in Orders(DistributionAssessments) :
        WorkerInit([workers |-> {}, topic |-> "none", messages |-> 0,
                    index |-> o])

AddDistribution(a) ==
    /\ <<a, TYPE, DISTRIBUTION_ASSESSMENT_CLASS>> \notin tgraph
    /\ tgraph' = tgraph \cup AssessmentQuads(a, DISTRIBUTION_ASSESSMENT_CLASS)
    /\ tinput' = None
    /\ tscore' = None
    /\ tjson' = None
    /\ UNCHANGED wvars

AddMeasurement(a, metric, value) ==
    /\ Cardinality({t \in tgraph : t[2] = VALUE}) < MaxValues
    /\ \E t \in tgraph : t[1] = a /\ t[2] = TYPE
    /\ MeasurementQuads(a, metric, value) \ tgraph # {}
    /\ tgraph' = tgraph \cup MeasurementQuads(a, metric, value)
    /\ tinput' = None
    /\ tscore' = None
    /\ tjson' = None
    /\ UNCHANGED wvars

CalculateScore ==
    /\ tscore = None
    /\ \E qm \in quality_measurements(tgraph, CatalogMetricIRIs),
          dist \in distributions(tgraph) :
        /\ tinput' = Some([qm |-> qm, dist |-> dist])
        /\ LET sc == calculate_score(tgraph, scores, qm, dist)
           IN /\ tscore' = Some(sc)
              /\ tjson' = IF IsOk(sc)
                          THEN Some(convert_scores(scores, sc[2][1], sc[2][2]))
                          ELSE None
    /\ UNCHANGED <<tgraph, wvars>>

ScoreNext ==
    \/ \E a \in DistributionAssessments : AddDistribution(a)
    \/ \E a \in {DatasetAssessment} \cup DistributionAssessments :
        \E metric \in MetricIds : \E value \in ValuesOf(metric) :
            AddMeasurement(a, metric, value)
    \/ CalculateScore

SpecScore == ScoreInit /\ [][ScoreNext]_vars

(***************************************************************************)
(* Metric harness: ScoreMetric::score is applied to one metric and one     *)
(* measurement value, as the unit tests of score_graph.rs do.              *)
(***************************************************************************)
\* Status codes are 100 * h and 100 * h + 99 for h in 1..MaxStatusClass.
MaxStatusClass == 5

StatusCodes ==
    UNION {{100 * h, 100 * h + 99} : h \in 1..MaxStatusClass}

\* MeasurementValue: Int, Bool, and String.
MeasurementValues ==
    {Lit("integer", n) : n \in StatusCodes}
    \cup {Lit("boolean", b) : b \in BOOLEAN}
    \cup {Lit("string", "text")}

\* ScoreMetric { name, score }
ScoreMetrics ==
    {[id |-> id, score |-> sc] :
        id \in {ACCESS_URL_STATUS_CODE, DOWNLOAD_URL_STATUS_CODE,
                "downloadUrlAvailability", ""},
        sc \in {10, 20, 50}}

MetricInit ==
    /\ tgraph = new
    /\ tinput = None
    /\ tscore = None
    /\ tjson = None
    /\ \E o \in Orders(DistributionAssessments) :
        WorkerInit([workers |-> {}, topic |-> "none", messages |-> 0,
                    index |-> o])

ScoreMeasurement(metric, value) ==
    /\ tinput' = Some([metric |-> metric, value |-> value])
    /\ tscore' = Some(metric_score(metric, value))
    /\ UNCHANGED <<tgraph, tjson, wvars>>

MetricNext ==
    \E metric \in ScoreMetrics : \E value \in MeasurementValues :
        ScoreMeasurement(metric, value)

SpecMetric == MetricInit /\ [][MetricNext]_vars

(***************************************************************************)
(* Properties of the worker loop and the event handler.                    *)
(***************************************************************************)
Range(s) == {s[i] : i \in 1..Len(s)}
Last(s) == s[Len(s)]
SetMax(S) == CHOOSE m \in S : \A x \in S : x <= m

\* The modified timestamps a Turtle document states.
ModifiedOf(doc) ==
    {parse_timestamp(t[3][3]) : t \in {x \in doc[2] : x[2] = MODIFIED}}

\* The measurements a Turtle document states: which node holds which
\* measurement, of which metric, with which value.
Measurements(doc) ==
    {t \in doc[2] : t[2] \in {CONTAINS_QUALITY_MEASUREMENT, IS_MEASUREMENT_OF,
                              VALUE}}

\* The worker has finished an attempt, or is about to POST in one.
Attempted(w) == pc[w] \in {"post", "sleep", "done"}

\* The attempt dropped the event as outdated: it ended Ok at the
\* reconciliation.
Dropped(w) ==
    /\ pc[w] = "done"
    /\ result[w] = "Ok"
    /\ Last(trace[w]) = "reconcile"

\* The answer to the attempt's GET was 200, with the assessment.
PriorFound(w) ==
    /\ prior[w] # None
    /\ prior[w][1].status = 200
    /\ ModifiedOf(prior[w][1].body) # {}

\* C1: the offset position stored for a partition never reaches a message
\* of the partition whose handling ended in final failure: the failed
\* message stays the next one to be delivered again.
C1_OffsetNeverPassesFailedMessage ==
    \A w \in Workers : \A offset \in failed[w] : stored[w] < offset

\* C2: an attempt whose GET returned 200 with a prior assessment modified
\* strictly after the event's timestamp (every modified timestamp the prior
\* assessment states is greater) issues no POST and ends Ok at the
\* reconciliation; the worker then stores the offset and counts a success.
C2_StaleEventIsDropped ==
    \A w \in Workers :
        ( /\ Attempted(w)
          /\ PriorFound(w)
          /\ \A t \in ModifiedOf(prior[w][1].body) : t > message[w].timestamp )
        => Dropped(w)

\* C3: an attempt whose GET returned 200 with a prior assessment modified
\* at or before the event's timestamp does not drop the event, and the
\* Turtle it POSTs states every measurement of the prior assessment and
\* every measurement of the event graph.
C3_FreshEventIsMerged ==
    \A w \in Workers :
        ( /\ Attempted(w)
          /\ PriorFound(w)
          /\ SetMax(ModifiedOf(prior[w][1].body)) <= message[w].timestamp )
        => /\ ~Dropped(w)
           /\ pc[w] = "post" =>
                /\ Measurements(prior[w][1].body)
                    \subseteq update[w][1].turtle_assessment[2]
                /\ Measurements(message[w].graph)
                    \subseteq update[w][1].turtle_assessment[2]

\* An event as old as the prior assessment, whose measurements the event
\* does not repeat, is about to be POSTed.
C3_Witness ==
    \E w \in Workers :
        /\ pc[w] = "post"
        /\ PriorFound(w)
        /\ SetMax(ModifiedOf(prior[w][1].body)) = message[w].timestamp
        /\ ~(Measurements(prior[w][1].body)
                \subseteq Measurements(message[w].graph))

\* C4: the modified timestamp of the assessment the scoring API stores for
\* an fdk-id never decreases, whatever the workers' interleaving.
C4_StoredModifiedNeverDecreases ==
    [][\A f \in FdkIds :
        (api[f] # None /\ api'[f] # None)
        => SetMax(ModifiedOf(api'[f][1])) >= SetMax(ModifiedOf(api[f][1]))]_vars

\* C5: once every message is handled, the assessment stored for the fdk-id
\* states the measurements of every event of a different check type that
\* was POSTed for it with success.
C5_EnrichmentNeverLost ==
    LET events == UNION {posted[w] : w \in Workers}
    IN ( /\ \A w \in Workers : pc[w] = "recv"
         /\ SeqSum(collect([v \in 1..Cardinality(Workers) |-> delivered[v]]))
                = env.messages
         /\ \A e1, e2 \in events : e1 # e2 => e1.event_type # e2.event_type )
       => \A e \in events :
            Measurements(e.graph) \subseteq api[e.fdk_id][1][2]

\* C6: handle is called at least once and at most 5 times per message; an
\* attempt starts only when no earlier attempt returned Ok and fewer than 5
\* were made, and the worker leaves the message only after an Ok or after
\* the fifth failure.
C6_BoundedRetry ==
    [][\A w \in Workers :
        /\ attempts'[w] = attempts[w] + 1
            => attempts[w] < 5 /\ result[w] = "Err"
        /\ (pc[w] = "done" /\ pc'[w] = "recv")
            => /\ 1 <= attempts[w] /\ attempts[w] <= 5
               /\ result[w] = "Err" => attempts[w] = 5
        /\ (pc[w] = "sleep" /\ pc'[w] \in {"handle", "done"})
            => (pc'[w] = "handle" <=> attempts[w] < 5)]_vars

\* Five attempts on one message have failed.
C6_Witness ==
    \E w \in Workers : pc[w] = "done" /\ attempts[w] = 5 /\ result[w] = "Err"

\* C7: the stored offset of a partition changes only to the offset of the
\* message just handled, and only after an attempt on it returned Ok: its
\* POST was answered 202, it was dropped as outdated, or it was skipped as
\* an unknown event name.
C7_OffsetStoredOnlyAfterOk ==
    [][\A w \in Workers :
        stored'[w] # stored[w]
        => /\ pc[w] = "done"
           /\ stored'[w] = delivered[w]
           /\ attempts[w] >= 1
           /\ result[w] = "Ok"
           /\ \/ /\ Last(trace[w]) = "post"
                 /\ message[w] \in posted[w]
              \/ Last(trace[w]) = "reconcile"
              \/ /\ trace[w] = <<"decode">>
                 /\ decode_message(message[w]) = Ok("Unknown")]_vars

\* The offset of a second message is stored although the first one failed.
C7_Witness ==
    \E w \in Workers : stored[w] = 2 /\ failed[w] = {1}

\* The steps of an attempt, in the order of the handler.
StepOrder ==
    << "decode", "event_type", "parse_fdk_id", "get", "load_prior",
       "reconcile", "load_event", "set_modified", "score", "insert_scores",
       "serialize", "post" >>
StepIndex(step) == CHOOSE i \in 1..Len(StepOrder) : StepOrder[i] = step

IsScoreNode(t) == t[1] = "bnode" /\ t[2][1] = "gen"
IsScoreQuad(t) == IsScoreNode(t[1]) \/ IsScoreNode(t[3]) \/ t[2] = SCORE

\* C9: when handling of a message begins the worker's graph is empty, and
\* the graph an attempt POSTs holds, besides the scores, only quads of the
\* event, of the prior assessment fetched for it and its modified stamp.
C9_MessageStartsFromEmptyGraph ==
    \A w \in Workers :
        /\ (pc[w] = "recv" \/ (pc[w] = "handle" /\ attempts[w] = 0))
            => graph[w] = new
        /\ pc[w] = "post"
            => \A t \in graph[w] :
                \/ IsScoreQuad(t)
                \/ t \in message[w].graph[2]
                \/ t \in prior[w][1].body[2]
                \/ /\ t[2] = MODIFIED
                   /\ t[3] = Lit("dateTime",
                                 format_timestamp(message[w].timestamp))

\* Handling of a second message begins after the first one was scored and
\* POSTed.
C9_Witness ==
    \E w \in Workers :
        /\ pc[w] = "handle"
        /\ attempts[w] = 0
        /\ delivered[w] = 2
        /\ posted[w] # {}

(***************************************************************************)
(* Properties of the scorer.                                               *)
(***************************************************************************)
\* The catalog's metrics, dimension after dimension.
CatalogMetrics ==
    Flatten(collect([i \in 1..Len(scores.dimensions) |->
                        scores.dimensions[i].metrics]))

\* The points a node earns for a metric; none without a measurement.
Points(M, node, metric) ==
    IF <<node, IRI(metric.id)>> \in DOMAIN M
    THEN metric_score(metric, M[<<node, IRI(metric.id)>>])[2]
    ELSE 0

Max(a, b) == IF a >= b THEN a ELSE b

DirectTotal(M, node) ==
    SeqSum(collect([k \in 1..Len(CatalogMetrics) |->
                        Points(M, node, CatalogMetrics[k])]))

MergedTotal(M, node, ds) ==
    SeqSum(collect([k \in 1..Len(CatalogMetrics) |->
                Max(Points(M, node, CatalogMetrics[k]),
                    Points(M, ds, CatalogMetrics[k]))]))

Scored == tscore # None /\ IsOk(tscore[1])
ScoredMeasurements == tinput[1].qm[2]
ScoredDistributions == tinput[1].dist[2]
ReportedDataset == tscore[1][2][1]
ReportedDistributions == tscore[1][2][2]

\* C10: for every successfully scored graph the reported dataset total is
\* the maximum over the distribution assessments of the total of the
\* distribution's scores max-merged with the dataset's direct scores, and
\* the dataset's direct total when there is no distribution assessment.
C10_DatasetTotalIsBestMerged ==
    Scored =>
        LET totals == {MergedTotal(ScoredMeasurements,
                                   ScoredDistributions[i].assessment,
                                   ReportedDataset.assessment)
                        : i \in 1..Len(ScoredDistributions)}
        IN IF totals = {}
           THEN ReportedDataset.score =
                    DirectTotal(ScoredMeasurements, ReportedDataset.assessment)
           ELSE /\ ReportedDataset.score \in totals
                /\ \A t \in totals : t <= ReportedDataset.score

\* A graph with two distributions whose merged totals differ, the second
\* listed being the better one, has been scored.
C10_Witness ==
    /\ Scored
    /\ Len(ScoredDistributions) = 2
    /\ MergedTotal(ScoredMeasurements, ScoredDistributions[1].assessment,
                   ReportedDataset.assessment)
       < MergedTotal(ScoredMeasurements, ScoredDistributions[2].assessment,
                     ReportedDataset.assessment)
    /\ DirectTotal(ScoredMeasurements, ReportedDataset.assessment) > 0

\* The graph of scenario S2 (the MEASUREMENT_GRAPH of the unit tests): the
\* dataset measured downloadUrlAvailability=true, distribution A
\* accessUrlStatusCode=200 and formatAvailability=false, distribution B
\* formatAvailability=true.
MEASUREMENT_GRAPH ==
    AssessmentQuads(DatasetAssessment, DATASET_ASSESSMENT_CLASS)
    \cup AssessmentQuads(IRI("https://distribution.assessment.a"),
                         DISTRIBUTION_ASSESSMENT_CLASS)
    \cup AssessmentQuads(IRI("https://distribution.assessment.b"),
                         DISTRIBUTION_ASSESSMENT_CLASS)
    \cup MeasurementQuads(DatasetAssessment, "downloadUrlAvailability",
                          Lit("boolean", TRUE))
    \cup MeasurementQuads(IRI("https://distribution.assessment.a"),
                          ACCESS_URL_STATUS_CODE, Lit("integer", 200))
    \cup MeasurementQuads(IRI("https://distribution.assessment.a"),
                          "formatAvailability", Lit("boolean", FALSE))
    \cup MeasurementQuads(IRI("https://distribution.assessment.b"),
                          "formatAvailability", Lit("boolean", TRUE))

\* The score of the dimension named id in a Score.
DimensionScoreOf(sc, id) ==
    LET i == CHOOSE k \in 1..Len(sc.dimensions) : sc.dimensions[k].id = id
    IN sc.dimensions[i].score

\* C11 as stated: in scenario S2 the reported dataset score is
\* accessibility 70, interoperability 20, total 90.
C11_ScenarioS2AsStated ==
    (tgraph = MEASUREMENT_GRAPH /\ Scored) =>
        /\ DimensionScoreOf(ReportedDataset, "accessibility") = 70
        /\ DimensionScoreOf(ReportedDataset, "interoperability") = 20
        /\ ReportedDataset.score = 90

\* C11: in scenario S2 the reported dataset score is that of the best
\* merged distribution, A merged with the dataset: accessibility 70,
\* interoperability 0 (formatAvailability scored 0), total 70; B merged with
\* the dataset totals 40 and is not taken.
C11_ScenarioS2 ==
    (tgraph = MEASUREMENT_GRAPH /\ Scored) =>
        /\ DimensionScoreOf(ReportedDataset, "accessibility") = 70
        /\ DimensionScoreOf(ReportedDataset, "interoperability") = 0
        /\ ReportedDataset.score = 70
        /\ MergedTotal(ScoredMeasurements,
                       IRI("https://distribution.assessment.b"),
                       DatasetAssessment) = 40

\* The graph of scenario S2 has been scored.
C11_Witness == tgraph = MEASUREMENT_GRAPH /\ Scored

\* The dataset's own direct scores in the scored graph.
DirectDimensions ==
    node_dimension_scores(scores, ScoredMeasurements,
                          ReportedDataset.assessment)[2]

\* What calculate_score merges for the i-th distribution.
MergedDimensions(i) ==
    merge_dimension_scores(ReportedDistributions[i].dimensions,
                           DirectDimensions)

\* C12: for every scored graph and every distribution, the merge of the
\* distribution's scores with the dataset's has one entry per catalog
\* metric; each merged metric score is the larger of the two with absent
\* compared as 0, is absent iff both sides are absent, and each merged
\* dimension total is the sum of its merged metric scores.
C12_MaxMergeRule ==
    Scored =>
        \A i \in 1..Len(ReportedDistributions) :
            LET d == ReportedDistributions[i].dimensions
                o == DirectDimensions
                m == MergedDimensions(i)
            IN /\ Len(m) = Len(scores.dimensions)
               /\ \A k \in 1..Len(m) :
                    /\ m[k].id = scores.dimensions[k].id
                    /\ Len(m[k].metrics) = Len(scores.dimensions[k].metrics)
                    /\ \A j \in 1..Len(m[k].metrics) :
                        /\ m[k].metrics[j].id = scores.dimensions[k].metrics[j].id
                        /\ unwrap_or_default(m[k].metrics[j].score)
                           = Max(unwrap_or_default(d[k].metrics[j].score),
                                 unwrap_or_default(o[k].metrics[j].score))
                        /\ IsSome(m[k].metrics[j].score)
                           <=> (IsSome(d[k].metrics[j].score)
                                \/ IsSome(o[k].metrics[j].score))
                    /\ m[k].score =
                        SeqSum(collect([j \in 1..Len(m[k].metrics) |->
                            unwrap_or_default(m[k].metrics[j].score)]))

\* A scored graph in which a distribution lacks a metric the dataset scored
\* 0 (merged: present 0), lacks another that the dataset lacks too (merged:
\* absent), and has one scored above the dataset's.
C12_Witness ==
    /\ Scored
    /\ \E i \in 1..Len(ReportedDistributions) :
        LET d == ReportedDistributions[i].dimensions
            o == DirectDimensions
            m == MergedDimensions(i)
            slots == {<<k, j>> \in (1..Len(d)) \X (1..2) :
                            j <= Len(d[k].metrics)}
        IN /\ \E x \in slots :
                /\ d[x[1]].metrics[x[2]].score = None
                /\ o[x[1]].metrics[x[2]].score = Some(0)
                /\ m[x[1]].metrics[x[2]].score = Some(0)
           /\ \E x \in slots :
                /\ d[x[1]].metrics[x[2]].score = None
                /\ o[x[1]].metrics[x[2]].score = None
                /\ m[x[1]].metrics[x[2]].score = None
           /\ \E x \in slots :
                /\ IsSome(d[x[1]].metrics[x[2]].score)
                /\ d[x[1]].metrics[x[2]].score[1] > 0
                /\ o[x[1]].metrics[x[2]].score = None

\* C13: a metric named accessUrlStatusCode or downloadUrlStatusCode scores
\* an integer value with the metric's max if 200 <= value < 300 and with 0
\* otherwise, and a non-integer value is an error; every other metric
\* scores a boolean with max if true and 0 if false, and a non-boolean is an
\* error.
C13_MetricScoringRule ==
    tinput # None =>
        LET metric == tinput[1].metric
            value == tinput[1].value
            scored == tscore[1]
        IN IF metric.id \in {"accessUrlStatusCode", "downloadUrlStatusCode"}
           THEN /\ (value[2] = "integer" /\ 200 <= value[3] /\ value[3] < 300)
                    => scored = Ok(metric.score)
                /\ (value[2] = "integer" /\ (value[3] < 200 \/ value[3] >= 300))
                    => scored = Ok(0)
                /\ value[2] # "integer" => scored = Err
           ELSE /\ value = Lit("boolean", TRUE) => scored = Ok(metric.score)
                /\ value = Lit("boolean", FALSE) => scored = Ok(0)
                /\ value[2] # "boolean" => scored = Err

\* The status code 299 has been scored for downloadUrlStatusCode and earned
\* the metric's max.
C13_Witness ==
    /\ tinput # None
    /\ tinput[1].metric.id = "downloadUrlStatusCode"
    /\ tinput[1].value = Lit("integer", 299)
    /\ tscore[1] = Ok(tinput[1].metric.score)

\* Whether the scored graph has a measurement of the metric on the node.
Measured(node, metric) ==
    <<node, IRI(metric.id)>> \in DOMAIN ScoredMeasurements

\* C14: the reported distribution scores are one per distribution
\* assessment, in the order distributions() returned them, each computed
\* from the distribution's own measurements alone: a metric without a
\* measurement on the distribution is absent whatever the dataset measured,
\* and the totals count only the distribution's measurements.
C14_DistributionsReportedUnmerged ==
    Scored =>
        /\ Len(ReportedDistributions) = Len(ScoredDistributions)
        /\ \A i \in 1..Len(ReportedDistributions) :
            LET r == ReportedDistributions[i]
                a == ScoredDistributions[i].assessment
            IN /\ r.assessment = a
               /\ r.resource = ScoredDistributions[i].resource
               /\ Len(r.dimensions) = Len(scores.dimensions)
               /\ \A k \in 1..Len(r.dimensions) :
                    LET ms == scores.dimensions[k].metrics
                    IN /\ Len(r.dimensions[k].metrics) = Len(ms)
                       /\ \A j \in 1..Len(ms) :
                            r.dimensions[k].metrics[j].score =
                                IF Measured(a, ms[j])
                                THEN Some(Points(ScoredMeasurements, a, ms[j]))
                                ELSE None
                       /\ r.dimensions[k].score =
                            SeqSum(collect([j \in 1..Len(ms) |->
                                Points(ScoredMeasurements, a, ms[j])]))
               /\ r.score = DirectTotal(ScoredMeasurements, a)

\* A scored graph with two distributions, one of which lacks a metric the
\* dataset earned points for and is reported with a smaller total than the
\* dataset.
C14_Witness ==
    /\ Scored
    /\ Len(ReportedDistributions) = 2
    /\ \E i \in 1..2 : \E k \in 1..Len(CatalogMetrics) :
        /\ ~Measured(ReportedDistributions[i].assessment, CatalogMetrics[k])
        /\ Points(ScoredMeasurements, ReportedDataset.assessment,
                  CatalogMetrics[k]) > 0
        /\ ReportedDistributions[i].score > 0
        /\ ReportedDistributions[i].score < ReportedDataset.score

\* C15: whenever the scored graph has a distribution assessment, the
\* reported dataset total is at least the total of every distribution,
\* merged with the dataset and unmerged, and at least the dataset's own
\* direct total.
C15_DatasetDoesNotUnderstate ==
    (Scored /\ Len(ReportedDistributions) >= 1) =>
        /\ \A i \in 1..Len(ReportedDistributions) :
            /\ ReportedDataset.score >= ReportedDistributions[i].score
            /\ ReportedDataset.score >= sum_dimensions(MergedDimensions(i))
            /\ ReportedDataset.score
               >= MergedTotal(ScoredMeasurements,
                              ReportedDistributions[i].assessment,
                              ReportedDataset.assessment)
        /\ ReportedDataset.score >= sum_dimensions(DirectDimensions)
        /\ ReportedDataset.score
           >= DirectTotal(ScoredMeasurements, ReportedDataset.assessment)

\* A scored graph with two distributions of different merged totals, in
\* which the dataset total exceeds the dataset's direct total and the
\* unmerged total of each distribution.
C15_Witness ==
    /\ Scored
    /\ Len(ReportedDistributions) = 2
    /\ sum_dimensions(MergedDimensions(1)) # sum_dimensions(MergedDimensions(2))
    /\ sum_dimensions(DirectDimensions) > 0
    /\ ReportedDataset.score > sum_dimensions(DirectDimensions)
    /\ \A i \in 1..2 :
        /\ ReportedDistributions[i].score > 0
        /\ ReportedDataset.score > ReportedDistributions[i].score

\* The score trees calculate_score returned: the dataset's and the
\* distributions'.
ReportedScores == {ReportedDataset} \cup Range(ReportedDistributions)

\* C16: in every score tree each present metric score is 0 or the metric's
\* trueScore; each dimension score is the sum of its metric scores, absent
\* counted as 0, and at most the dimension's max; each resource total is
\* the sum of its dimension scores and at most the catalog total.
C16_ScoreRanges ==
    Scored =>
        \A sc \in ReportedScores :
            /\ Len(sc.dimensions) = Len(scores.dimensions)
            /\ \A k \in 1..Len(sc.dimensions) :
                LET d == sc.dimensions[k]
                    def == scores.dimensions[k]
                IN /\ Len(d.metrics) = Len(def.metrics)
                   /\ \A j \in 1..Len(d.metrics) :
                        IsSome(d.metrics[j].score) =>
                            d.metrics[j].score[1] \in {0, def.metrics[j].score}
                   /\ d.score =
                        SeqSum(collect([j \in 1..Len(d.metrics) |->
                            IF IsSome(d.metrics[j].score)
                            THEN d.metrics[j].score[1] ELSE 0]))
                   /\ d.score <= def.total_score
            /\ sc.score =
                SeqSum(collect([k \in 1..Len(sc.dimensions) |->
                                    sc.dimensions[k].score]))
            /\ sc.score <= scores.total_score

\* A scored graph whose dataset total is the catalog total while a
\* distribution is reported with a metric scored 0 and a metric absent.
C16_Witness ==
    /\ Scored
    /\ ReportedDataset.score = scores.total_score
    /\ \E sc \in Range(ReportedDistributions) :
        /\ \E k \in 1..Len(sc.dimensions) :
            \E j \in 1..Len(sc.dimensions[k].metrics) :
                sc.dimensions[k].metrics[j].score = Some(0)
        /\ \E k \in 1..Len(sc.dimensions) :
            \E j \in 1..Len(sc.dimensions[k].metrics) :
                sc.dimensions[k].metrics[j].score = None

(***************************************************************************)
(* Properties of the JSON summary.                                         *)
(***************************************************************************)
\* The resources of the emitted scores JSON: the dataset and the
\* distributions.
EmittedScores == {tjson[1].dataset} \cup Range(tjson[1].distributions)

\* The sum of the trueScores of the metrics the catalog lists for a
\* dimension, and over all dimensions.
TrueScoreSum(dimension) ==
    SeqSum(collect([j \in 1..Len(metrics(dimension)) |->
                        metrics(dimension)[j].score]))

CatalogTotal ==
    SeqSum(collect([i \in 1..Len(dimensions) |-> TrueScoreSum(dimensions[i])]))

ReportedScoreOf(name) ==
    CHOOSE sc \in ReportedScores : sc.resource = name

Rerun(w) ==
    /\ pc[w] = "post"
    /\ update[w] # None
    /\ accepted[message[w].fdk_id] # None
    /\ accepted[message[w].fdk_id][1].event = message[w]
    /\ prior[w] = Some([status |-> 200,
            body |-> accepted[message[w].fdk_id][1].turtle_assessment])

AscendingAssessments ==
    << IRI("https://distribution.assessment.a"),
       IRI("https://distribution.assessment.b") >>
AscendingResources ==
    << IRI("https://distribution.a"), IRI("https://distribution.b") >>
AscendingCatalog ==
    << ACCESS_URL_STATUS_CODE, "accessibility", "downloadUrlAvailability",
       "formatAvailability", "interoperability" >>

Rank(order, x) == CHOOSE i \in 1..Len(order) : order[i] = x
IsAscending(list, order) ==
    \A i, j \in 1..Len(list) :
        i < j => Rank(order, list[i]) < Rank(order, list[j])

\* C20: distributions() returns the distribution assessments ascending by
\* assessment IRI, and in every emitted scores the distributions, the
\* dimensions and each dimension's metrics are in ascending IRI order,
\* whatever the order in which the store iterates the quads.
C20_AscendingOrder ==
    tjson # None =>
        /\ IsAscending(collect([i \in 1..Len(ScoredDistributions) |->
                            ScoredDistributions[i].assessment]),
                       AscendingAssessments)
        /\ IsAscending(collect([i \in 1..Len(tjson[1].distributions) |->
                            tjson[1].distributions[i].name]),
                       AscendingResources)
        /\ \A js \in EmittedScores :
            /\ IsAscending(collect([k \in 1..Len(js.dimensions) |->
                                js.dimensions[k].name]), AscendingCatalog)
            /\ \A k \in 1..Len(js.dimensions) :
                IsAscending(collect([j \in 1..Len(js.dimensions[k].metrics) |->
                                js.dimensions[k].metrics[j].metric]),
                            AscendingCatalog)

(***************************************************************************)
(* Properties of the modified timestamp.                                   *)
(***************************************************************************)
\* The modified quads a Turtle document states.
ModifiedQuads(doc) == {t \in doc[2] : t[2] = MODIFIED}

\* C21: after insert_modified_timestmap(ts) on a graph whose dataset
\* assessment carries a modified literal of the prior assessment, the
\* dataset assessment has exactly one modified literal, which encodes ts:
\* the Turtle about to be POSTed states the event's timestamp alone and
\* get_modified_timestmap on it returns that timestamp.
C21_ModifiedIsReplaced ==
    \A w \in Workers :
        (pc[w] = "post" /\ update[w] # None /\ PriorFound(w))
        => /\ Cardinality(ModifiedQuads(update[w][1].turtle_assessment)) = 1
           /\ ModifiedOf(update[w][1].turtle_assessment)
              = {message[w].timestamp}
           /\ get_modified_timestmap(update[w][1].turtle_assessment[2])
              = {Ok(message[w].timestamp)}

(***************************************************************************)
(* Properties of the merged graph.                                         *)
(***************************************************************************)
\* The (assessment, metric) pairs a graph holds measurements of.
PairsOf(g) == {<<p[1], p[2]>> : p \in measured_pairs(g)}

\* C22: once the prior assessment and the event graph are loaded, the graph
\* holds for each (assessment, metric) pair at most one measurement node
\* that the assessment contains and that is a measurement of the metric,
\* also when the prior assessment and the event both carry a measurement of
\* the pair, and insert_scores keeps it so.
C22_OneMeasurementPerPair ==
    \A w \in Workers :
        "load_event" \in Range(trace[w])
        => \A p \in PairsOf(graph[w]) :
            Cardinality(measurements_of(graph[w], p[1], p[2])) <= 1

(***************************************************************************)
(* Properties of the handling of errors.                                   *)
(***************************************************************************)
\* A message the decoder identifies, with a name other than the MQA event's.
UnknownName(m) ==
    /\ m.payload = "avro" /\ m.name # "" /\ m.namespace # ""
    /\ <<m.namespace, m.name>> # <<"no.fdk.mqa", "MQAEvent">>

\* The worker ends an attempt / leaves the message.
AttemptOf(w) == pc[w] = "handle" /\ pc'[w] # "handle"
Leaves(w) == pc[w] = "done" /\ pc'[w] = "recv"

UnknownType(m) ==
    /\ decode_message(m) = Ok("MqaEvent")
    /\ m.event_type \notin {"PROPERTIES_CHECKED", "URLS_CHECKED",
                            "DCAT_COMPLIANCE_CHECKED"}

\* C24: an MQA event of an unknown type is an error: every attempt fails
\* before any HTTP request (no GET, no POST), and after the fifth attempt
\* the message is counted as an error and its offset is not stored.
C24_UnknownTypeIsError ==
    [][\A w \in Workers : UnknownType(message[w]) =>
        /\ AttemptOf(w) =>
            /\ pc'[w] = "sleep" /\ result'[w] = "Err"
            /\ "get" \notin Range(trace'[w]) /\ "post" \notin Range(trace'[w])
            /\ prior'[w] = None /\ update'[w] = None
            /\ api' = api /\ posted' = posted
        /\ Leaves(w) =>
            /\ attempts[w] = 5 /\ result[w] = "Err"
            /\ processed'["error"] = processed["error"] + 1
            /\ processed'["success"] = processed["success"]
            /\ stored' = stored
            /\ delivered[w] \in failed'[w]]_vars

\* The fifth attempt of an event of an unknown type has failed at the
\* event type.
C24_Witness ==
    \E w \in Workers :
        /\ UnknownType(message[w])
        /\ pc[w] = "done" /\ attempts[w] = 5 /\ result[w] = "Err"
        /\ trace[w] = <<"decode", "event_type">>

\* The GET of the attempt was answered with a status other than 200 or 404.
GetFailed(w) == prior[w] # None /\ prior[w][1].status \notin {200, 404}

\* The outcomes of another attempt of the worker's message, from its graph
\* and the assessment stored now.
AnotherAttempt(w) ==
    handle_message(graph[w], message[w], api[message[w].fdk_id],
                   <<w, delivered[w]>>)

\* C25: an attempt whose GET is answered with a status other than 200 or
\* 404 fails at the GET, without loading the event graph and without a
\* POST, and leaves the graph as it was; the failure is retriable: while
\* attempts are left the worker makes another one, and an attempt of the
\* same message whose GET is answered 200 or 404 goes on past the GET, to
\* success for a well-formed event.
C25_GetFailureIsRetriable ==
    /\ [][\A w \in Workers : (AttemptOf(w) /\ GetFailed(w)') =>
            /\ pc'[w] = "sleep" /\ result'[w] = "Err"
            /\ Last(trace'[w]) = "get"
            /\ update'[w] = None
            /\ graph'[w] = graph[w]
            /\ api' = api /\ posted' = posted]_vars
    /\ [][\A w \in Workers :
            (pc[w] = "sleep" /\ GetFailed(w) /\ attempts[w] < 5)
            => pc'[w] \in {"sleep", "handle"}]_vars
    /\ [](\A w \in Workers : (pc[w] = "sleep" /\ GetFailed(w)) =>
            /\ \E o \in AnotherAttempt(w) :
                /\ o.prior[1].status \in {200, 404}
                /\ Last(o.steps) # "get"
            /\ message[w] \in GoodMessages =>
                \E o \in AnotherAttempt(w) :
                    /\ o.prior[1].status \in {200, 404}
                    /\ o.to \in {"post", "ok"})

\* An attempt of a well-formed event has failed at the GET and attempts are
\* left.
C25_Witness ==
    \E w \in Workers :
        /\ pc[w] = "sleep" /\ GetFailed(w) /\ attempts[w] < 5
        /\ message[w] \in GoodMessages
        /\ Last(trace[w]) = "get" /\ update[w] = None

\* The worker gets the answer to its POST.
PostOf(w) == pc[w] = "post" /\ pc'[w] # "post"

\* C26: a POST answered 202 stores the assessment and ends the attempt with
\* Ok; any other answer (413 included) fails the attempt and stores
\* nothing.  The message gets at most 5 attempts, and when the fifth has
\* failed the offset is not stored and the error counter is incremented,
\* once for the message.
C26_PostFailureIsRetried ==
    [][\A w \in Workers :
        /\ PostOf(w) =>
            \/ /\ pc'[w] = "done" /\ result'[w] = "Ok"
               /\ api'[message[w].fdk_id]
                  = Some(update[w][1].turtle_assessment)
               /\ accepted'[message[w].fdk_id][1].event = message[w]
            \/ /\ pc'[w] = "sleep" /\ result'[w] = "Err"
               /\ api' = api /\ accepted' = accepted /\ posted' = posted
        /\ attempts'[w] <= 5
        /\ (pc[w] = "sleep" /\ Last(trace[w]) = "post") =>
            /\ attempts[w] < 5 => pc'[w] \in {"sleep", "handle"}
            /\ attempts[w] = 5 => pc'[w] \in {"sleep", "done"}
        /\ (Leaves(w) /\ result[w] = "Err") =>
            /\ attempts[w] = 5
            /\ processed'["error"] = processed["error"] + 1
            /\ processed'["success"] = processed["success"]
            /\ stored' = stored
        /\ processed'["error"] # processed["error"] =>
            \E v \in Workers : Leaves(v) /\ result[v] = "Err"]_vars

\* The POST of the fifth attempt of a message has failed.
C26_Witness ==
    \E w \in Workers :
        /\ pc[w] = "done" /\ attempts[w] = 5 /\ result[w] = "Err"
        /\ Last(trace[w]) = "post" /\ update[w] # None

\* The worker leaves a message it handled with success and the offset of
\* the message is not stored: store_offset_from_message failed.
StoreFailed(w) == Leaves(w) /\ result[w] = "Ok" /\ stored'[w] # delivered[w]

\* consumer.recv() failed for the worker.
ReceiveFailed(w) == pc[w] = "recv" /\ pc'[w] = "stopped"

\* C27: transport errors are fatal to the worker: when receiving the next
\* message fails, or when storing the offset of a message handled with
\* success fails, the worker stops its loop and returns the error, which
\* exits the process, instead of going on to the next message.
C27_TransportErrorsAreFatal ==
    [][\A w \in env.workers :
        (ReceiveFailed(w) \/ StoreFailed(w))
        => \A v \in env.workers : pc'[v] = "stopped"]_vars

\* C27 as the code has it: a failure to receive the next message ends the
\* worker's loop with the error and the process with it, so that no worker
\* takes another step; a failure to store the offset of a message handled
\* with success is logged, the message is counted as a success, the stored
\* position stays, and the worker goes on to receive the next message.
C27_ReceiveErrorIsFatal ==
    [][\A w \in env.workers :
        /\ ReceiveFailed(w) => \A v \in env.workers : pc'[v] = "stopped"
        /\ pc[w] = "stopped" => pc'[w] = "stopped"
        /\ StoreFailed(w) =>
            /\ pc'[w] = "recv"
            /\ processed'["success"] = processed["success"] + 1
            /\ processed'["error"] = processed["error"]
            /\ stored' = stored]_vars

\* A worker has left its first message, handled with success, without its
\* offset stored, and the process has then ended on a failure to receive.
C27_Witness ==
    /\ \A v \in env.workers : pc[v] = "stopped"
    /\ \E w \in env.workers :
        /\ delivered[w] = 1 /\ message[w] = NoMessage
        /\ failed[w] = {} /\ posted[w] # {}
        /\ stored[w] = 0

\* C28: an error of a single message does not propagate beyond the
\* message's retry budget: whatever error handle_message returns (decode,
\* parse, structure of the graph, HTTP), after the last failed attempt the
\* worker counts the error and is back at receiving the next message; no
\* step of the handling of a message ends the worker's loop.
C28_ErrorsStayWithTheMessage ==
    [][\A w \in env.workers :
        /\ (pc[w] = "done" /\ result[w] = "Err" /\ pc'[w] # "done") =>
            /\ pc'[w] = "recv"
            /\ processed'["error"] = processed["error"] + 1
            /\ graph'[w] = new /\ attempts'[w] = 0
        /\ (pc[w] # "recv" /\ pc[w] # "stopped") => pc'[w] # "stopped"]_vars

\* The first message of the partition failed for good and the worker has
\* handled the next message with success.
FailedThenHandled(w) ==
    /\ failed[w] = {1} /\ delivered[w] = 2
    /\ pc[w] = "done" /\ result[w] = "Ok" /\ Last(trace[w]) = "post"

C28_Witness ==
    \E w \in env.workers : FailedThenHandled(w) /\ processed["error"] = 1

(***************************************************************************)
(* Catalog harness: ScoreGraph::scores (score_graph.rs) on score graphs    *)
(* that declare the dimensions and metrics of the unit tests' vocabulary   *)
(* and give, or do not give, each metric a trueScore.                      *)
(***************************************************************************)
DIMENSION_CLASS == IRI("dqv:Dimension")
METRIC == IRI("dqv:Metric")
IN_DIMENSION == "dqv:inDimension"
TRUE_SCORE == "dcatno-mqa:trueScore"

\* str::parse::<u64> on a lexical form, a sequence of characters: an
\* optional "+", then one or more decimal digits.  The forms of the harness
\* are short, far from the width of u64.
Digits == <<"0", "1", "2", "3", "4", "5", "6", "7", "8", "9">>
IsDigit(c) == \E i \in 1..Len(Digits) : Digits[i] = c
DigitValue(c) == (CHOOSE i \in 1..Len(Digits) : Digits[i] = c) - 1
RECURSIVE DecimalValue(_)
DecimalValue(cs) ==
    IF cs = <<>> THEN 0
    ELSE 10 * DecimalValue(SubSeq(cs, 1, Len(cs) - 1)) + DigitValue(Last(cs))

parse_u64(text) ==
    LET body == IF text # <<>> /\ Head(text) = "+" THEN Tail(text) ELSE text
    IN IF body = <<>> \/ \E i \in 1..Len(body) : ~IsDigit(body[i]) THEN Err
       ELSE Ok(DecimalValue(body))

\* ScoreGraph::dimensions on a score graph: the named subjects typed
\* dqv:Dimension, sorted.
score_graph_dimensions(sg) ==
    index_order({t[2] : t \in {x \in Subjects(sg, TYPE, DIMENSION_CLASS) :
                                IsNamedNode(x)}},
                AscendingCatalog)

\* The solutions (?metric, ?score) of the query of ScoreGraph::metrics: a
\* metric has a solution for each trueScore it has, and none without one.
metric_solutions(sg, dimension) ==
    {<<m, sc>> \in Subjects(sg, TYPE, METRIC) \X {t[3] : t \in sg} :
        /\ <<m, IN_DIMENSION, IRI(dimension)>> \in sg
        /\ <<m, TRUE_SCORE, sc>> \in sg}

\* ScoreGraph::metrics on a score graph: the solutions ORDER BY ?metric,
\* each read as a ScoreMetric; a metric that is not a named node or a score
\* that is not a literal parsing as u64 is an error.  (The graphs of the
\* harness give a metric at most one trueScore.)
score_graph_metrics(sg, dimension) ==
    LET sols == metric_solutions(sg, dimension)
        ids == index_order({r[1][2] : r \in sols}, AscendingCatalog)
        row(id) == CHOOSE r \in sols : r[1][2] = id
    IN IF \E r \in sols : \/ ~IsNamedNode(r[1])
                          \/ ~IsLiteral(r[2])
                          \/ ~IsOk(parse_u64(r[2][3]))
       THEN Err
       ELSE Ok(collect([j \in 1..Len(ids) |->
                [id |-> ids[j], score |-> parse_u64(row(ids[j])[2][3])[2]]]))

\* ScoreGraph::scores on a score graph.
score_graph_scores(sg) ==
    LET ds == score_graph_dimensions(sg)
    IN IF \E i \in 1..Len(ds) : ~IsOk(score_graph_metrics(sg, ds[i]))
       THEN Err
       ELSE LET dims == collect([i \in 1..Len(ds) |->
                    LET ms == score_graph_metrics(sg, ds[i])[2]
                    IN [id |-> ds[i], metrics |-> ms,
                        total_score |->
                            SeqSum(collect([j \in 1..Len(ms) |-> ms[j].score]))]])
            IN Ok([dimensions |-> dims,
                   total_score |->
                       SeqSum(collect([i \in 1..Len(dims) |->
                                        dims[i].total_score]))])

\* METRIC_GRAPH of the unit tests: two dimensions and their three metrics.
DeclaredMetrics ==
    {<<ACCESS_URL_STATUS_CODE, "accessibility">>,
     <<"downloadUrlAvailability", "accessibility">>,
     <<"formatAvailability", "interoperability">>}
METRIC_GRAPH ==
    {<<IRI("accessibility"), TYPE, DIMENSION_CLASS>>,
     <<IRI("interoperability"), TYPE, DIMENSION_CLASS>>}
    \cup UNION {{<<IRI(md[1]), TYPE, METRIC>>,
                 <<IRI(md[1]), IN_DIMENSION, IRI(md[2])>>}
                : md \in DeclaredMetrics}

\* SCORE_GRAPH of the unit tests: the trueScore of each metric.
SCORE_GRAPH ==
    {<<IRI(ACCESS_URL_STATUS_CODE), TRUE_SCORE, Lit("integer", <<"5", "0">>)>>,
     <<IRI("downloadUrlAvailability"), TRUE_SCORE, Lit("integer", <<"2", "0">>)>>,
     <<IRI("formatAvailability"), TRUE_SCORE, Lit("integer", <<"2", "0">>)>>}

\* The lexical forms a score graph may give as a trueScore: the two of
\* SCORE_GRAPH, a negative number and a form that is no number.
TrueScoreForms == {<<"5", "0">>, <<"2", "0">>, <<"-", "1">>, <<"a", "b", "c">>}

CatalogInit ==
    /\ tgraph = METRIC_GRAPH
    /\ tinput = None
    /\ tscore = None
    /\ tjson = None
    /\ \E o \in Orders(DistributionAssessments) :
        WorkerInit([workers |-> {}, topic |-> "none", messages |-> 0,
                    index |-> o])

\* The score graph gives a metric, which has none yet, a trueScore.
AddTrueScore(metric, text) ==
    /\ \A t \in tgraph : ~(t[1] = IRI(metric) /\ t[2] = TRUE_SCORE)
    /\ tgraph' = tgraph \cup {<<IRI(metric), TRUE_SCORE, Lit("integer", text)>>}
    /\ tinput' = None
    /\ tscore' = None
    /\ UNCHANGED <<tjson, wvars>>

\* ScoreGraph::new()?.scores() on the graph.
LoadCatalog ==
    /\ tscore = None
    /\ tinput' = Some(tgraph)
    /\ tscore' = Some(score_graph_scores(tgraph))
    /\ UNCHANGED <<tgraph, tjson, wvars>>

CatalogNext ==
    \/ \E md \in DeclaredMetrics : \E text \in TrueScoreForms :
        AddTrueScore(md[1], text)
    \/ LoadCatalog

SpecCatalog == CatalogInit /\ [][CatalogNext]_vars

\* The metrics a score graph declares: typed dqv:Metric, in a dimension.
Declared(sg) ==
    {md \in DeclaredMetrics :
        /\ <<IRI(md[1]), TYPE, METRIC>> \in sg
        /\ <<IRI(md[1]), IN_DIMENSION, IRI(md[2])>> \in sg}

\* C29: the load of the catalog fails, instead of returning a catalog, when
\* a metric declared in a dimension has no trueScore or one that does not
\* parse as a non-negative integer; a catalog that is returned holds every
\* declared metric in its dimension, with its max score.
C29_CatalogHoldsEveryMetric ==
    (tscore # None /\ IsOk(tscore[1])) =>
        \A md \in Declared(tgraph) :
            /\ \E t \in tgraph :
                /\ t[1] = IRI(md[1]) /\ t[2] = TRUE_SCORE
                /\ IsOk(parse_u64(t[3][3]))
            /\ \E i \in 1..Len(tscore[1][2].dimensions) :
                /\ tscore[1][2].dimensions[i].id = md[2]
                /\ \E j \in 1..Len(tscore[1][2].dimensions[i].metrics) :
                    /\ tscore[1][2].dimensions[i].metrics[j].id = md[1]
                    /\ \E t \in tgraph :
                        /\ t[1] = IRI(md[1]) /\ t[2] = TRUE_SCORE
                        /\ Ok(tscore[1][2].dimensions[i].metrics[j].score)
                           = parse_u64(t[3][3])

(***************************************************************************)
(* Timestamp harness: insert_modified_timestmap and get_modified_timestmap *)
(* (assessment_graph.rs) on a graph with a dataset assessment.             *)
(***************************************************************************)
\* The largest epoch-millisecond value the harness sets: values with a
\* millisecond part of 0 and with one, two and three digits.
MaxMillis == 1200

ModifiedInit ==
    /\ tgraph = AssessmentQuads(DatasetAssessment, DATASET_ASSESSMENT_CLASS)
    /\ tinput = None
    /\ tscore = None
    /\ tjson = None
    /\ \E o \in Orders(DistributionAssessments) :
        WorkerInit([workers |-> {}, topic |-> "none", messages |-> 0,
                    index |-> o])

\* insert_modified_timestmap(timestamp) on the graph, which holds no
\* modified literal yet.
InsertModified(timestamp) ==
    /\ tinput = None
    /\ IsOk(insert_modified_timestmap(tgraph, timestamp))
    /\ tgraph' = insert_modified_timestmap(tgraph, timestamp)[2]
    /\ tinput' = Some(timestamp)
    /\ tscore' = None
    /\ UNCHANGED <<tjson, wvars>>

\* get_modified_timestmap() on the graph; tscore is the last result.
GetModified ==
    /\ \E r \in get_modified_timestmap(tgraph) : tscore' = Some(r)
    /\ UNCHANGED <<tgraph, tinput, tjson, wvars>>

ModifiedNext ==
    \/ \E timestamp \in 0..MaxMillis : InsertModified(timestamp)
    \/ GetModified

SpecModified == ModifiedInit /\ [][ModifiedNext]_vars

Slept(w) == pc[w] = "sleep" /\ pc'[w] # "sleep"

\* C31: the worker sleeps only between two attempts of the same message:
\* every sleep is followed by another attempt of that message, so a message
\* incurs at most MaxAttempts - 1 sleeps, and no sleep follows the fifth
\* failed attempt or a successful attempt.
C31_SleepOnlyBetweenAttempts ==
    /\ [][\A w \in Workers :
            Slept(w) => /\ pc'[w] = "handle"
                        /\ message'[w] = message[w]
                        /\ attempts[w] < MaxAttempts]_vars
    /\ [](\A w \in Workers :
            /\ sleeps[w] <= MaxAttempts - 1
            /\ pc[w] = "sleep" => result[w] = "Err")

\* The messages whose outcome receive_message has recorded.
Recorded == processed["success"] + processed["error"]

\* C32: within a worker, messages are handled one at a time in the order
\* received: the next message is received, and its first attempt starts,
\* only after the last attempt, the sleeps and the bookkeeping (counter,
\* offset, duration) of the current message are over.
C32_OneMessageAtATime ==
    /\ [][\A w \in env.workers :
            delivered'[w] # delivered[w]
                => /\ delivered'[w] = delivered[w] + 1
                   /\ pc[w] = "recv"
                   /\ Recorded = delivered[w]
                   /\ observed = delivered[w]
                   /\ sleeps[w] = 0 /\ attempts[w] = 0]_vars
    /\ [][\A w \in env.workers :
            AttemptOf(w) => /\ Recorded = delivered[w] - 1
                            /\ observed = delivered[w] - 1
                            /\ message'[w] = message[w]]_vars

\* The second message of a worker is handled after the first one failed
\* five times, slept and was counted as an error.
C32_Witness ==
    \E w \in env.workers :
        /\ delivered[w] = 2
        /\ pc[w] \in {"post", "sleep", "done"}
        /\ failed[w] = {1}
        /\ processed["error"] = 1
        /\ observed = 1

(***************************************************************************)
(* A worker whose scoring API already holds an assessment that states no   *)
(* modified literal (kafka.rs, handle_mqa_event).                          *)
(***************************************************************************)
\* An assessment stored without a modified literal.
AssessmentWithoutModified == EventGraph(DistributionGraph, 0)

PriorInit ==
    /\ \E o \in Orders(DistributionAssessments) :
        env = [workers |-> {1}, topic |-> "good", messages |-> 2, index |-> o]
    /\ api = [f \in FdkIds |-> Some(AssessmentWithoutModified)]
    /\ stored = [w \in Workers |-> 0]
    /\ delivered = [w \in Workers |-> 0]
    /\ pc = [w \in Workers |-> "recv"]
    /\ message = [w \in Workers |-> NoMessage]
    /\ attempts = [w \in Workers |-> 0]
    /\ result = [w \in Workers |-> "Err"]
    /\ graph = [w \in Workers |-> new]
    /\ update = [w \in Workers |-> None]
    /\ processed = [label \in {"success", "error"} |-> 0]
    /\ observed = 0
    /\ sleeps = [w \in Workers |-> 0]
    /\ trace = [w \in Workers |-> <<>>]
    /\ prior = [w \in Workers |-> None]
    /\ failed = [w \in Workers |-> {}]
    /\ posted = [w \in Workers |-> {}]
    /\ accepted = [f \in FdkIds |-> None]
    /\ HarnessIdle

SpecPrior == PriorInit /\ [][Next]_vars

\* The GET of the current attempt found an assessment that states no
\* modified literal.
PriorWithoutModified(w) ==
    /\ prior[w] # None
    /\ prior[w][1].status = 200
    /\ IsOk(load(new, prior[w][1].body))
    /\ ModifiedQuads(prior[w][1].body) = {}

\* Such an event is handled like one of a new assessment.
HandledAsNew(w) ==
    /\ pc[w] # "handle" => trace[w][Len(trace[w])] # "reconcile"
    /\ pc[w] = "post" =>
        /\ {"load_event", "set_modified", "score"} \subseteq Range(trace[w])
        /\ message[w].graph[2] \subseteq graph[w]
        /\ ModifiedOf(update[w][1].turtle_assessment)
            = {message[w].timestamp}

\* C33: get_modified_timestmap returns an absent value, not an error, when
\* the dataset assessment has no modified literal; and when the GET answers
\* 200 with such an assessment the event is handled like one of a new
\* assessment: the event graph is loaded, the modified literal set, the
\* result scored and POSTed.
C33_AbsentModifiedIsNotAnError ==
    \A w \in env.workers :
        PriorWithoutModified(w) =>
            /\ Err \notin get_modified_timestmap(load(new, prior[w][1].body)[2])
            /\ HandledAsNew(w)

\* The second half of C33 alone.
C33_HandledAsNew ==
    \A w \in env.workers : PriorWithoutModified(w) => HandledAsNew(w)

C33_HandledAsNew_Witness ==
    \E w \in env.workers :
        PriorWithoutModified(w) /\ pc[w] = "done" /\ result[w] = "Ok"
            /\ Last(trace[w]) = "post"

(***************************************************************************)
(* insert_scores (assessment_graph.rs) on merged graphs.                   *)
(***************************************************************************)
\* The metrics of the aggregate measurements: the overall score and the
\* score of each dimension.
AggregateMetrics ==
    {IRI(SCORING)} \cup {IRI(dimensions[i] \o "Scoring") : i \in 1..Len(dimensions)}

\* The measurement nodes of a graph.
MeasurementNodes(g) == {t[1] : t \in {x \in g : x[2] = IS_MEASUREMENT_OF}}

\* The prior assessment of the attempt was scored by an earlier handling.
PriorScored(w) ==
    /\ PriorFound(w)
    /\ \E t \in prior[w][1].body[2] : t[2] = SCORE

\* C34: after insert_scores on a graph merged from a previously scored
\* prior assessment and a new event, every measurement has at most one
\* score literal and every aggregate measurement exactly one value literal,
\* the newly computed total: literals of the earlier scoring with another
\* number do not remain next to the new ones.
C34_ScoreLiteralsAreReplaced ==
    \A w \in Workers :
        (pc[w] = "post" /\ PriorScored(w)) =>
            /\ \A n \in MeasurementNodes(graph[w]) :
                /\ Cardinality(Objects(graph[w], n, SCORE)) <= 1
                /\ Objects(graph[w], n, IS_MEASUREMENT_OF) \cap AggregateMetrics # {}
                    => Cardinality(Objects(graph[w], n, VALUE)) = 1
            /\ \A n \in measurements_of(graph[w], DatasetAssessment, IRI(SCORING)) :
                Objects(graph[w], n, VALUE)
                    = {Lit("integer", update[w][1].dataset_score.score)}

(***************************************************************************)
(* insert_scores harness: insert_scores (assessment_graph.rs) is applied   *)
(* to the scores calculate_score computed for a graph of a dataset and a   *)
(* distribution assessment, and applied again to the graph it produced.    *)
(***************************************************************************)
\* The most applications of insert_scores to one graph.
MaxApplications == 2

ADistribution == IRI("https://distribution.assessment.a")
InsertPairs == {DatasetAssessment, ADistribution} \X MetricIds

\* The well-typed values of a metric.
TypedValuesOf(metric) ==
    IF metric = ACCESS_URL_STATUS_CODE
    THEN {Lit("integer", 200), Lit("integer", 404)}
    ELSE {Lit("boolean", TRUE), Lit("boolean", FALSE)}

\* The graph that holds, for each (assessment, metric), the measurement
\* chosen for it, if any.
GraphOf(f) ==
    AssessmentQuads(DatasetAssessment, DATASET_ASSESSMENT_CLASS)
    \cup AssessmentQuads(ADistribution, DISTRIBUTION_ASSESSMENT_CLASS)
    \cup UNION {IF f[p] = None THEN {}
                ELSE MeasurementQuads(p[1], p[2], f[p][1]) : p \in InsertPairs}

InsertInit ==
    /\ \E f \in [InsertPairs -> {None} \cup {Some(v) : v \in
                    UNION {TypedValuesOf(metric) : metric \in MetricIds}}] :
        /\ \A p \in InsertPairs :
                f[p] # None => f[p][1] \in TypedValuesOf(p[2])
        /\ tgraph = GraphOf(f)
    /\ tinput = None
    /\ tscore = None
    /\ tjson = None
    /\ \E o \in Orders(DistributionAssessments) :
        WorkerInit([workers |-> {}, topic |-> "none", messages |-> 0,
                    index |-> o])

\* calculate_score on the graph, then insert_scores of the dataset's and
\* the distributions' scores.  tinput keeps the graph as it was, the list
\* of scores and the number of applications; tscore the graph the first
\* application produced.
InsertScores ==
    /\ tinput = None
    /\ \E qm \in quality_measurements(tgraph, CatalogMetricIRIs),
          dist \in distributions(tgraph), iteration \in Iterations(tgraph) :
        LET sc == calculate_score(tgraph, scores, qm, dist)
            score_list == <<sc[2][1]>> \o sc[2][2]
        IN /\ IsOk(sc)
           /\ tgraph' = insert_scores(tgraph, score_list, iteration, <<0, 1>>)
           /\ tinput' = Some([graph |-> tgraph, scores |-> score_list,
                              applications |-> 1])
           /\ tscore' = Some(tgraph')
    /\ UNCHANGED <<tjson, wvars>>

\* insert_scores once more, with the same list of scores.
InsertScoresAgain ==
    /\ tinput # None
    /\ tinput[1].applications < MaxApplications
    /\ \E iteration \in Iterations(tgraph) :
        tgraph' = insert_scores(tgraph, tinput[1].scores, iteration,
                                <<0, tinput[1].applications + 1>>)
    /\ tinput' = Some([tinput[1] EXCEPT !.applications = @ + 1])
    /\ UNCHANGED <<tscore, tjson, wvars>>

InsertNext ==
    \/ InsertScores
    \/ InsertScoresAgain

SpecInsert == InsertInit /\ [][InsertNext]_vars

\* The metric scores of a Score: (metric, score) per metric of each
\* dimension.
MetricScoresOf(sc) ==
    UNION {{sc.dimensions[i].metrics[j] : j \in 1..Len(sc.dimensions[i].metrics)}
           : i \in 1..Len(sc.dimensions)}

\* The quads about the measurements of (assessment, metric) in a graph.
QuadsAbout(g, assessment, metric) ==
    {t \in g : \/ t[1] \in measurements_of(g, assessment, metric)
               \/ t[3] \in measurements_of(g, assessment, metric)}

\* The measurement of (assessment, metric) was created by insert_scores: one
\* blank node with its type, metric, resource and link.
CreatedOne(before, after, sc, metric) ==
    /\ measurements_of(before, sc.assessment, metric) = {}
    /\ \E n \in measurements_of(after, sc.assessment, metric) :
        /\ measurements_of(after, sc.assessment, metric) = {n}
        /\ n[1] = "bnode"
        /\ \A t \in before : t[1] # n /\ t[3] # n
        /\ {<<n, TYPE, QUALITY_MEASUREMENT_CLASS>>,
            <<n, IS_MEASUREMENT_OF, metric>>,
            <<n, COMPUTED_ON, sc.resource>>,
            <<sc.assessment, CONTAINS_QUALITY_MEASUREMENT, n>>} \subseteq after

\* The measurement of (assessment, metric) was there and got the literal.
Reused(before, after, sc, metric, property, value) ==
    /\ measurements_of(before, sc.assessment, metric) # {}
    /\ measurements_of(after, sc.assessment, metric)
        = measurements_of(before, sc.assessment, metric)
    /\ \E n \in measurements_of(before, sc.assessment, metric) :
        QuadsAbout(after, sc.assessment, metric)
            = QuadsAbout(before, sc.assessment, metric)
                \cup {<<n, property, Lit("integer", value)>>}

Written(before, after, sc, metric, property, value) ==
    /\ \E n \in measurements_of(after, sc.assessment, metric) :
            <<n, property, Lit("integer", value)>> \in after
    /\ \/ Reused(before, after, sc, metric, property, value)
       \/ CreatedOne(before, after, sc, metric)

\* C35: the measurement creation rule of insert_scores.  For a metric with
\* a present score the measurement of (assessment, metric) is reused if
\* there is one and no node is created, otherwise exactly one blank node is
\* created with type QualityMeasurement, isMeasurementOf the metric,
\* computedOn the resource, linked from the assessment; for a metric with
\* an absent score nothing is created or written; one aggregate per
\* dimension and one overall aggregate are written per scored resource.
C35_MeasurementCreationRule ==
    (tinput # None /\ tinput[1].applications = 1) =>
        LET before == tinput[1].graph
            after == tgraph
        IN \A k \in 1..Len(tinput[1].scores) :
            LET sc == tinput[1].scores[k]
            IN /\ \A ms \in MetricScoresOf(sc) :
                    IF IsSome(ms.score)
                    THEN Written(before, after, sc, IRI(ms.id), SCORE,
                                 ms.score[1])
                    ELSE QuadsAbout(after, sc.assessment, IRI(ms.id))
                            = QuadsAbout(before, sc.assessment, IRI(ms.id))
               /\ Written(before, after, sc, IRI(SCORING), VALUE, sc.score)
               /\ \A i \in 1..Len(sc.dimensions) :
                    Written(before, after, sc,
                            IRI(sc.dimensions[i].id \o "Scoring"), VALUE,
                            sc.dimensions[i].score)

\* One application reused a measurement, created one for a score the
\* dataset took from its distribution, and left a metric without score
\* alone.
C35_Witness ==
    /\ tinput # None /\ tinput[1].applications = 1
    /\ \E ms \in MetricScoresOf(tinput[1].scores[1]) :
        /\ IsSome(ms.score)
        /\ Reused(tinput[1].graph, tgraph, tinput[1].scores[1], IRI(ms.id),
                  SCORE, ms.score[1])
    /\ \E ms \in MetricScoresOf(tinput[1].scores[1]) :
        /\ IsSome(ms.score)
        /\ CreatedOne(tinput[1].graph, tgraph, tinput[1].scores[1], IRI(ms.id))
    /\ \E ms \in MetricScoresOf(tinput[1].scores[1]) : ~IsSome(ms.score)

\* C38: insert_scores is idempotent: applied a second time with the same
\* list of scores to the graph the first application produced, it leaves
\* the set of quads as it is; no further measurement node is created for
\* any (assessment, metric).
C38_InsertScoresIsIdempotent ==
    (tinput # None /\ tinput[1].applications > 1) =>
        /\ tgraph = tscore[1]
        /\ MeasurementNodes(tgraph) = MeasurementNodes(tscore[1])

\* insert_scores was applied twice to a graph in which the first
\* application created measurements and wrote a score on an upstream one.
C38_Witness ==
    /\ tinput # None /\ tinput[1].applications = 2
    /\ \E n \in MeasurementNodes(tgraph) : IsScoreNode(n)
    /\ \E t \in tgraph : t[2] = SCORE /\ ~IsScoreNode(t[1])
    /\ tinput[1].graph # tgraph

\* C36: for every epoch-millisecond timestamp the modified literal that
\* insert_modified_timestmap writes has exactly three digits of fractional
\* seconds (YYYY-MM-DD HH:MM:SS.fff +0000), also when the timestamp is a
\* whole number of seconds, and it states the timestamp's second.
C36_ThreeFractionalDigits ==
    tinput # None =>
        \A t \in ModifiedQuads(Turtle(tgraph)) :
            /\ t[3][2] = "dateTime"
            /\ t[3][3][1] = tinput[1] \div 1000
            /\ Len(t[3][3][2]) = 3

(***************************************************************************)
(* Retries of one message (kafka.rs, receive_message).                     *)
(***************************************************************************)
\* The Turtle documents a first attempt would be about to POST for the
\* worker's message, given the answer to the GET of the current attempt.
FirstAttemptTurtle(w) ==
    {o.update[1].turtle_assessment :
        o \in {x \in handle_message(new, message[w],
                        IF prior[w][1].status = 200
                        THEN Some(prior[w][1].body) ELSE None,
                        <<w, delivered[w]>>) :
                    x.to = "post" /\ x.prior = prior[w]}}

\* The attempt about to POST follows a failed attempt of the same message.
Retried(w) == pc[w] = "post" /\ attempts[w] > 1

\* The part of C37 about the POSTed assessment alone.
PostedAsOnFirstAttempt ==
    \A w \in Workers :
        Retried(w) => update[w][1].turtle_assessment \in FirstAttemptTurtle(w)

\* C37: the assessment POSTed for a message does not depend on how many
\* earlier attempts of the message failed: an attempt that follows a failed
\* attempt starts from a graph without any quad the failed attempt left,
\* and the Turtle it POSTs is the one a first attempt would have POSTed.
C37_RetryInvariance ==
    /\ \A w \in Workers :
        (pc[w] = "handle" /\ attempts[w] > 0) => graph[w] = new
    /\ PostedAsOnFirstAttempt

(***************************************************************************)
(* Termination of receive_message (kafka.rs): one worker and one message   *)
(* of any kind, every decode, HTTP call and sleep returning.               *)
(***************************************************************************)
InitOne ==
    /\ \E o \in Orders(DistributionAssessments) :
        WorkerInit([workers |-> {1}, topic |-> "all", messages |-> 1,
                    index |-> o])
    /\ HarnessIdle

\* handle_message returns: the worker leaves the attempt, for the POST, the
\* sleep or the end of the retry loop.  In a behaviour of the worker these
\* are the steps of HandleMessage(w), which is enabled exactly when the
\* worker is at "handle".
HandleMessageReturns(w) ==
    /\ pc[w] = "handle"
    /\ \E to \in {"post", "sleep", "done"} : pc' = [pc EXCEPT ![w] = to]

\* Every await of the handling of a message returns.
Returns ==
    \A w \in Workers :
        /\ WF_pc(HandleMessageReturns(w))
        /\ WF_vars(PostScores(w) /\ UNCHANGED svars)
        /\ WF_vars(Sleep(w) /\ UNCHANGED svars)
        /\ WF_vars(Finish(w) /\ UNCHANGED svars)

SpecReturns == InitOne /\ [][Next]_vars /\ Returns

====
